---- MODULE Spec2Model ----
(***************************************************************************)
(* Model of the price aggregation and distribution engine of               *)
(* internal/services/crypto.go (CryptoService): the TTL cache and          *)
(* GetSingleCrypto, the two bulk operations GetBulkCrypto (deadline) and   *)
(* GetPortfolioRealtime (semaphore), and the subscriber hub.               *)
(*                                                                         *)
(* Goroutines are modelled as processes with a program counter each; one   *)
(* action is one atomic step of one goroutine (a channel operation, a      *)
(* critical section under s.mu / s.subMu, the upstream HTTP exchange).     *)
(***************************************************************************)
EXTENDS Integers, Sequences, FiniteSets, TLC

\* ------------------------------------------------------------------ bounds

\* Longest coin list given to GetBulkCrypto in SpecBulk.
MaxBulkCoins == 2

\* Longest short coin list given to GetPortfolioRealtime in SpecGate.
MaxGateCoins == 2

\* Number of GetSingleCrypto calls the handler layer issues in SpecCache.
MaxCalls == 2

\* Concurrent BroadcastToSubscribers calls in SpecHub.
MaxBroadcasts == 1

\* Channels made by AddSubscriber in SpecHub, the initial ones included.
MaxChans == 3

\* Events the subscribers' consumers receive in SpecHub.
MaxConsumes == 1

\* Coins of a StreamPrices request in SpecStream.
MaxStreamCoins == 2

\* Largest max_updates parameter of a StreamPrices request in SpecStream.
MaxUpdatesArg == 2

\* Ticks the stream's ticker delivers in SpecStream.
MaxTicks == 2

\* Number of fetch-and-broadcast rounds StartPriceStreaming starts.
MaxRounds == 1

\* Goroutines that call the service's locking methods concurrently in
\* SpecLocks, and the number of calls they make.
MaxLockers == 2
MaxLockOps == 3

\* Handler goroutines calling GetSingleCrypto concurrently in SpecCache.
MaxCallers == 2

\* Last instant of the wall clock in SpecCache (seconds).
MaxTime == 119

\* ------------------------------------------------------- program constants

\* time.Minute, the freshness window of a cache entry, in seconds.
CacheTTL == 60

\* Capacity of a subscriber's event channel.
QueueCap == 100

\* time.After(100 * time.Millisecond) in BroadcastToSubscribers.
SendTimeout == 100

\* Capacity of the semaphore channel of GetPortfolioRealtime.
SemCap == 5

\* ---------------------------------------------------------------- inputs

\* Coin ids requested by callers.
Symbols == {"bitcoin", "ethereum"}

\* Behaviour of the upstream price API for one coin (a test double):
\* "ok" answers 200 with one market row, "neterr" fails at the transport,
\* "status" answers a non-200 status, "empty" answers 200 with no rows and
\* "hang" never answers.
SourceModes == {"ok", "neterr", "status", "empty", "hang"}

\* current_price the upstream API reports for a coin.
StubPrice(c) == IF c = "bitcoin" THEN 50000 ELSE 3000

\* Amounts by which the wall clock advances in one step (seconds): just
\* under the freshness window, and the whole window.
ClockSteps == {59, 60}

\* All sequences over S of length at most n.
SeqsUpTo(S, n) == UNION {[1..k -> S] : k \in 0..n}

\* A list of n coins cycling through bitcoin, ethereum.
CycleCoins(n) == [i \in 1..n |-> IF i % 2 = 1 THEN "bitcoin" ELSE "ethereum"]

\* One more coin than the semaphore of GetPortfolioRealtime has slots.
WideList == CycleCoins(SemCap + 1)

\* Coin lists given to GetBulkCrypto under stub source src: every short
\* list, and the wide list while the whole upstream hangs.
BulkInputs(src) ==
    SeqsUpTo(Symbols, MaxBulkCoins)
        \cup (IF \A c \in Symbols : src[c] = "hang" THEN {WideList} ELSE {})

\* Coin lists given to GetPortfolioRealtime under stub source src: the
\* short cycling lists, and the wide list while bitcoin is answered and
\* ethereum fails.
GateInputs(src) ==
    {CycleCoins(n) : n \in 0..MaxGateCoins}
        \cup (IF src["bitcoin"] = "ok" /\ src["ethereum"] = "neterr"
              THEN {WideList} ELSE {})

\* Indices of worker goroutines / GetSingleCrypto invocations.
MaxTasks == IF MaxBulkCoins > SemCap + 1 THEN MaxBulkCoins ELSE SemCap + 1
Tasks == 1..MaxTasks

\* ---------------------------------------------------------------- values

\* The empty error string and the error values of the service.
NoError == <<>>

\* fmt.Errorf(prefix + "%v", detail).Error(): the prefix followed by the detail.
Errorf(prefix, detail) == <<prefix, detail>>

TimeoutError == <<"timeout">>

\* models.CryptoData with the fields the engine reads or writes.
CryptoData(id, price, at, err) ==
    [ID |-> id, Price |-> price, FetchedAt |-> at, Error |-> err]

\* Mutant of ErrorRecord: the placeholder also carries a price.
ErrorRecordKeepsPrice(coinID, err, at) == CryptoData(coinID, 50000, at, err)

\* The failure placeholder the bulk operations build: only ID, Error and
\* FetchedAt are set, Price keeps Go's zero value.
ErrorRecord(coinID, err, at) == CryptoData(coinID, 0, at, err)

\* The GetBulkCrypto handler before a request has arrived.
NoRequest == [pc |-> "idle", coins |-> <<>>, status |-> 0, message |-> ""]

\* The zero CryptoData behind a nil *CryptoData.
NilCrypto == CryptoData("", 0, 0, NoError)

\* Concurrent BroadcastToSubscribers calls; call b broadcasts event b.
Broadcasters == 1..MaxBroadcasts

\* The coins argument of StartPriceStreaming (main passes its list of
\* popular coins).
TickerInputs == {<<"bitcoin">>, <<"bitcoin", "ethereum">>}

\* The length of the longest of these lists.
TickerWidth ==
    CHOOSE n \in 1..MaxTasks :
        /\ \E cs \in TickerInputs : Len(cs) = n
        /\ \A cs \in TickerInputs : Len(cs) <= n

\* The per-coin goroutines StartPriceStreaming's rounds start, numbered in
\* the order of the rounds and of the coins; each makes one
\* GetSingleCrypto call and at most one BroadcastToSubscribers call.
RoundWorkers == {w \in Tasks : w <= MaxRounds * TickerWidth}

\* The BroadcastToSubscribers call of round goroutine w.
CallOf(w) == MaxBroadcasts + w

\* The calls of BroadcastToSubscribers made by round goroutines.
RoundCalls == {CallOf(w) : w \in RoundWorkers}

\* The goroutines of SpecLocks.
Lockers == 1..MaxLockers

\* WebSocket client ids.
SubIDs == {"c1", "c2", "c3"}

\* make(chan models.StreamEvent, 100)
MakeChan == [buf |-> <<>>, closed |-> FALSE]

\* A channel holding n events of earlier broadcasts (event 0).
ChanWithBacklog(n) == [buf |-> [k \in 1..n |-> 0], closed |-> FALSE]

\* Numbers of undelivered events in a subscriber's channel at the start of
\* the hub runs: one short of the capacity, and the capacity (a channel
\* made by AddSubscriber during the run is empty).
Backlogs == {QueueCap - 1, QueueCap}

\* Time a blocked send has waited when the consumer makes room (ms).
PartialWaits == {SendTimeout - 1}

VARIABLES
    cache,          \* s.cache: coin id -> CryptoData (a function on the keys)
    now,            \* wall clock, seconds
    source,         \* behaviour of the upstream API per coin
    apiCalls,       \* number of upstream requests made per coin
    fpc,            \* position of each GetSingleCrypto invocation
    fcoin,          \* its coinID argument
    fres,           \* its (crypto, err) result once fpc = "ret"
    op,             \* the bulk operation running: "none", "bulk", "portfolio"
    coins,          \* its coins argument
    wpc,            \* position of each worker goroutine
    wg,             \* the WaitGroup counter
    results,        \* the buffered results channel
    resultsClosed,  \* whether close(results) has run
    ctxDone,        \* whether ctx.Done() is closed
    sem,            \* number of tokens in the semaphore channel
    portfolio,      \* the collector's portfolio slice
    totalValue,     \* the collector's totalValue
    successCount,   \* the collector's successCount
    errorCount,     \* the collector's errorCount
    cpc,            \* position of the calling goroutine
    pendingAtDeadline, \* workers whose fetch was unfinished when the deadline expired
    failedOnce,     \* coins for which an upstream call has failed
    callsMade,      \* number of GetSingleCrypto calls the handler has issued
    stats,          \* the latest result of GetCacheStats
    bulkReq,        \* the GetBulkCrypto handler: position, request coins, response
    subscribers,    \* s.subscribers: subscriber id -> channel
    chans,          \* the event channels made so far: buffer and closed flag
    subReaders,     \* number of holders of s.subMu.RLock()
    bpc,            \* position of each BroadcastToSubscribers call
    btodo,          \* subscribers its range loop has still to visit
    bcur,           \* the subscriber its select is blocked on
    bsnap,          \* the subscribers registered when it took the lock
    waited,         \* milliseconds it has spent blocked in select
    bsent,          \* per subscriber it delivered to, the wait before the send
    bdropped,       \* subscribers for which it dropped the event
    bfull,          \* subscribers whose channel it found full
    consumed,       \* number of events the consumers have received
    panicked,       \* a close of a closed channel or a send on one has panicked
    spc,            \* position of the StreamPriceUpdates goroutine
    sconf,          \* its config: Coins and MaxUpdates
    updateCount,    \* its updateCount
    sctx,           \* whether the stream's ctx is cancelled
    eventChan,      \* the stream's event channel: buffer and closed flag
    swpc,           \* position of each fetch goroutine of the current tick
    swg,            \* the WaitGroup of the current tick
    updateChan,     \* updateChan of the current tick
    updateClosed,   \* whether close(updateChan) has run
    hpc,            \* position of the StreamPrices handler
    emitted,        \* number of events sent on the event channel so far
    tickEmitted,    \* events sent in the current (or last) tick
    tickDropped,    \* events dropped in the current (or last) tick
    tpc,            \* position of the StartPriceStreaming goroutine
    tcoins,         \* its coins argument
    tctx,           \* whether its ctx is cancelled
    ticks,          \* number of receptions from its ticker.C
    rounds,         \* number of fetch-and-broadcast goroutines it has started
    rseen,          \* per round, the subscribers registered at its tick
    rpc,            \* position of each per-coin goroutine of the rounds
    bevent,         \* the StreamEvent each of them broadcasts
    cacheMu,        \* s.mu: the goroutines holding it shared (r) and exclusively (w)
    subMu,          \* s.subMu: the goroutine holding it exclusively (w)
    lop,            \* the service method each goroutine of the lock runs is in
    larg,           \* its subscriber id and the number of channels it found
    lcount          \* number of method calls these goroutines have made

fetchVars == <<cache, now, source, apiCalls, failedOnce, fpc, fcoin, fres>>
bulkVars == <<op, coins, wpc, wg, results, resultsClosed, ctxDone, sem,
              portfolio, totalValue, successCount, errorCount, cpc,
              pendingAtDeadline>>
handlerVars == <<callsMade, stats, bulkReq>>
hubVars == <<subscribers, chans, subReaders, bpc, btodo, bcur, bsnap, waited,
             bsent, bdropped, bfull, consumed, panicked>>
streamVars == <<spc, sconf, updateCount, sctx, eventChan, swpc, swg, updateChan,
                updateClosed, hpc, emitted, tickEmitted, tickDropped>>
tickVars == <<tpc, tcoins, tctx, ticks, rounds, rseen, rpc, bevent>>
lockVars == <<cacheMu, subMu, lop, larg, lcount>>
vars == <<fetchVars, bulkVars, handlerVars, hubVars, streamVars, tickVars, lockVars>>

\* ------------------------------------------------------------ construction

\* No BroadcastToSubscribers call has started.
InitBroadcasters ==
    /\ subReaders = 0
    /\ bpc = [b \in Broadcasters |-> "idle"]
    /\ btodo = [b \in Broadcasters |-> {}]
    /\ bcur = [b \in Broadcasters |-> ""]
    /\ bsnap = [b \in Broadcasters |-> {}]
    /\ waited = [b \in Broadcasters |-> 0]
    /\ bsent = [b \in Broadcasters |-> <<>>]
    /\ bdropped = [b \in Broadcasters |-> {}]
    /\ bfull = [b \in Broadcasters |-> {}]
    /\ consumed = 0
    /\ panicked = FALSE

\* NewCryptoService: subscribers: make(map[string]chan models.StreamEvent).
InitRegistry ==
    /\ subscribers = <<>>
    /\ chans = <<>>
    /\ InitBroadcasters

\* NewCryptoService: empty cache; no request is being served.
InitRequests ==
    /\ cache = <<>>
    /\ now = 0
    /\ apiCalls = [c \in Symbols |-> 0]
    /\ fpc = [i \in Tasks |-> "none"]
    /\ fcoin = [i \in Tasks |-> ""]
    /\ fres = [i \in Tasks |-> [crypto |-> NilCrypto, err |-> NoError]]
    /\ op = "none"
    /\ coins = <<>>
    /\ wpc = [i \in Tasks |-> "none"]
    /\ wg = 0
    /\ results = <<>>
    /\ resultsClosed = FALSE
    /\ ctxDone = FALSE
    /\ sem = 0
    /\ portfolio = <<>>
    /\ totalValue = 0
    /\ successCount = 0
    /\ errorCount = 0
    /\ cpc = "idle"
    /\ pendingAtDeadline = {}
    /\ failedOnce = {}
    /\ callsMade = 0
    /\ stats = [cached_coins |-> 0, cache_keys |-> {}]
    /\ bulkReq = NoRequest

\* No StreamPriceUpdates call has been made.
InitNoStream ==
    /\ spc = "none"
    /\ sconf = [Coins |-> <<>>, MaxUpdates |-> 0]
    /\ updateCount = 0
    /\ sctx = FALSE
    /\ eventChan = MakeChan
    /\ swpc = [i \in Tasks |-> "none"]
    /\ swg = 0
    /\ updateChan = <<>>
    /\ updateClosed = FALSE
    /\ hpc = "none"
    /\ emitted = 0
    /\ tickEmitted = 0
    /\ tickDropped = 0

\* StartPriceStreaming has not been called.
InitNoTicker ==
    /\ tpc = "none"
    /\ tcoins = <<>>
    /\ tctx = FALSE
    /\ ticks = 0
    /\ rounds = 0
    /\ rseen = <<>>
    /\ rpc = [w \in RoundWorkers |-> "none"]
    /\ bevent = [w \in RoundWorkers |-> [Type |-> "", Data |-> [CoinID |-> "", UpdateType |-> ""]]]

\* Both mutexes are free and no goroutine is inside a method.
InitNoLocks ==
    /\ cacheMu = [r |-> {}, w |-> {}]
    /\ subMu = [w |-> {}]
    /\ lop = [t \in Lockers |-> "none"]
    /\ larg = [t \in Lockers |-> [id |-> "", mark |-> 0]]
    /\ lcount = 0

\* NewCryptoService.
InitService == InitRequests /\ InitRegistry /\ InitNoStream /\ InitNoTicker /\ InitNoLocks

\* ---------------------------------------------------------- GetSingleCrypto

\* s.cache[coinID] = crypto
CachePut(c, coinID, crypto) ==
    [k \in (DOMAIN c) \cup {coinID} |-> IF k = coinID THEN crypto ELSE c[k]]

\* Mutant of CacheFresh: an entry aged exactly one minute is still served.
CacheFreshInclusive(entry) == now - entry.FetchedAt <= CacheTTL

\* time.Since(cached.FetchedAt) < time.Minute
CacheFresh(entry) == now - entry.FetchedAt < CacheTTL

\* Mutant of FetchRead: the hit does not return and falls through to the
\* upstream call.
FetchReadFallsThrough(i) ==
    /\ fpc[i] = "read"
    /\ fpc' = [fpc EXCEPT ![i] = "api"]
    /\ UNCHANGED <<cache, now, source, apiCalls, failedOnce, fcoin, fres>>

\* The cache lookup under s.mu.RLock(): a fresh entry is returned, anything
\* else falls through to the upstream call.
FetchRead(i) ==
    /\ fpc[i] = "read"
    /\ IF fcoin[i] \in DOMAIN cache /\ CacheFresh(cache[fcoin[i]])
       THEN /\ fres' = [fres EXCEPT ![i] = [crypto |-> cache[fcoin[i]], err |-> NoError]]
            /\ fpc' = [fpc EXCEPT ![i] = "ret"]
       ELSE /\ fpc' = [fpc EXCEPT ![i] = "api"]
            /\ fres' = fres
    /\ UNCHANGED <<cache, now, source, apiCalls, failedOnce, fcoin>>

\* Mutant of FetchApi: a failure is cached as a placeholder entry.
FetchApiCachesFailure(i) ==
    /\ fpc[i] = "api"
    /\ source[fcoin[i]] # "hang"
    /\ apiCalls' = [apiCalls EXCEPT ![fcoin[i]] = @ + 1]
    /\ failedOnce' = IF source[fcoin[i]] = "ok" THEN failedOnce ELSE failedOnce \cup {fcoin[i]}
    /\ IF source[fcoin[i]] = "ok"
       THEN /\ fres' = [fres EXCEPT ![i] =
                          [crypto |-> CryptoData(fcoin[i], StubPrice(fcoin[i]), now, NoError),
                           err |-> NoError]]
            /\ fpc' = [fpc EXCEPT ![i] = "write"]
            /\ cache' = cache
       ELSE /\ fres' = [fres EXCEPT ![i] = [crypto |-> NilCrypto,
                          err |-> Errorf("API call failed: ", "connection refused")]]
            /\ fpc' = [fpc EXCEPT ![i] = "ret"]
            /\ cache' = CachePut(cache, fcoin[i],
                            ErrorRecord(fcoin[i], Errorf("API call failed: ", "connection refused"), now))
    /\ UNCHANGED <<now, source, fcoin>>

\* The upstream exchange and the three failure returns; on success the
\* CryptoData is built with FetchedAt = time.Now().
FetchApi(i) ==
    /\ fpc[i] = "api"
    /\ source[fcoin[i]] # "hang"
    /\ apiCalls' = [apiCalls EXCEPT ![fcoin[i]] = @ + 1]
    /\ failedOnce' = IF source[fcoin[i]] = "ok" THEN failedOnce ELSE failedOnce \cup {fcoin[i]}
    /\ CASE source[fcoin[i]] = "neterr" ->
              /\ fres' = [fres EXCEPT ![i] = [crypto |-> NilCrypto,
                             err |-> Errorf("API call failed: ", "connection refused")]]
              /\ fpc' = [fpc EXCEPT ![i] = "ret"]
         [] source[fcoin[i]] = "status" ->
              /\ fres' = [fres EXCEPT ![i] = [crypto |-> NilCrypto,
                             err |-> Errorf("API returned status ", "500")]]
              /\ fpc' = [fpc EXCEPT ![i] = "ret"]
         [] source[fcoin[i]] = "empty" ->
              /\ fres' = [fres EXCEPT ![i] = [crypto |-> NilCrypto,
                             err |-> Errorf("coin not found: ", fcoin[i])]]
              /\ fpc' = [fpc EXCEPT ![i] = "ret"]
         [] OTHER ->
              /\ fres' = [fres EXCEPT ![i] =
                             [crypto |-> CryptoData(fcoin[i], StubPrice(fcoin[i]), now, NoError),
                              err |-> NoError]]
              /\ fpc' = [fpc EXCEPT ![i] = "write"]
    /\ UNCHANGED <<cache, now, source, fcoin>>

\* Mutant of FetchWrite: a writer that finds an entry for its coin adds
\* its price to the entry's instead of replacing the entry.
FetchWriteMerges(i) ==
    /\ fpc[i] = "write"
    /\ cache' = IF fcoin[i] \in DOMAIN cache
                THEN [cache EXCEPT ![fcoin[i]].Price = @ + fres[i].crypto.Price]
                ELSE CachePut(cache, fcoin[i], fres[i].crypto)
    /\ fpc' = [fpc EXCEPT ![i] = "ret"]
    /\ UNCHANGED <<now, source, apiCalls, failedOnce, fcoin, fres>>

\* The cache update under s.mu.Lock() and the successful return.
FetchWrite(i) ==
    /\ fpc[i] = "write"
    /\ cache' = CachePut(cache, fcoin[i], fres[i].crypto)
    /\ fpc' = [fpc EXCEPT ![i] = "ret"]
    /\ UNCHANGED <<now, source, apiCalls, failedOnce, fcoin, fres>>

\* One step of some GetSingleCrypto invocation.
FetchStep(i) == FetchRead(i) \/ FetchApi(i) \/ FetchWrite(i)

\* GetSingleCrypto invocations that have started and not returned.
InFlight == {i \in Tasks : fpc[i] \in {"read", "api", "write"}}

\* ------------------------------------------------- the bulk operations

\* State of the calling goroutine and its workers when a bulk operation
\* has run its launch loop: one worker per coin, wg.Add(1) for each,
\* results = make(chan CryptoData, len(coins)), the collector's zero values.
LaunchWorkers(kind, cs) ==
    /\ op' = kind
    /\ coins' = cs
    /\ wpc' = [i \in Tasks |-> IF i <= Len(cs) THEN "start" ELSE "none"]
    /\ wg' = Len(cs)
    /\ results' = <<>>
    /\ resultsClosed' = FALSE
    /\ portfolio' = <<>>
    /\ totalValue' = 0
    /\ successCount' = 0
    /\ errorCount' = 0
    /\ cpc' = "collect"

\* GetBulkCrypto up to the collector loop: the context with its deadline,
\* the channels and the launch loop.
CallBulk(cs) ==
    /\ op = "none"
    /\ LaunchWorkers("bulk", cs)
    /\ ctxDone' = FALSE
    /\ UNCHANGED <<fetchVars, handlerVars, streamVars, tickVars, hubVars, sem, pendingAtDeadline, lockVars>>

\* Mutant of BulkWorkerStart: the inner goroutine is launched twice, the
\* second one as the next invocation slot.
BulkWorkerStartTwice(i) ==
    /\ op = "bulk"
    /\ wpc[i] = "start"
    /\ wpc' = [wpc EXCEPT ![i] = "select"]
    /\ LET j == (i % MaxTasks) + 1 IN
         /\ fpc' = [fpc EXCEPT ![i] = "read", ![j] = IF @ = "none" THEN "read" ELSE @]
         /\ fcoin' = [fcoin EXCEPT ![i] = coins[i], ![j] = IF fpc[j] = "none" THEN coins[i] ELSE @]
    /\ UNCHANGED <<cache, now, source, apiCalls, failedOnce, fres, handlerVars, streamVars, tickVars, hubVars, op, coins, wg, results,
                   resultsClosed, ctxDone, sem, portfolio, totalValue,
                   successCount, errorCount, cpc, pendingAtDeadline, lockVars>>

\* A GetBulkCrypto worker starts the inner goroutine that calls
\* GetSingleCrypto(coinID) and reaches its select.
BulkWorkerStart(i) ==
    /\ op = "bulk"
    /\ wpc[i] = "start"
    /\ wpc' = [wpc EXCEPT ![i] = "select"]
    /\ fpc' = [fpc EXCEPT ![i] = "read"]
    /\ fcoin' = [fcoin EXCEPT ![i] = coins[i]]
    /\ UNCHANGED <<cache, now, source, apiCalls, failedOnce, fres, handlerVars, streamVars, tickVars, hubVars, op, coins, wg, results,
                   resultsClosed, ctxDone, sem, portfolio, totalValue,
                   successCount, errorCount, cpc, pendingAtDeadline, lockVars>>

\* Mutant of ResultRecord: err is ignored and *crypto is sent.
ResultRecordIgnoresErr(coinID, res) == res.crypto

\* The record a worker sends once GetSingleCrypto has returned (crypto, err).
ResultRecord(coinID, res) ==
    IF res.err # NoError
    THEN ErrorRecord(coinID, res.err, now)
    ELSE res.crypto

\* case <-done: the inner goroutine has closed done; the worker sends the
\* fetched record or the failure placeholder and returns, which runs the
\* deferred wg.Done(). The send cannot block (the channel has a place per
\* worker), so both are taken as one step.
BulkSelectDone(i) ==
    /\ op = "bulk"
    /\ wpc[i] = "select"
    /\ fpc[i] = "ret"
    /\ results' = Append(results, ResultRecord(coins[i], fres[i]))
    /\ wg' = wg - 1
    /\ wpc' = [wpc EXCEPT ![i] = "exit"]
    /\ UNCHANGED <<fetchVars, handlerVars, streamVars, tickVars, hubVars, op, coins, resultsClosed, ctxDone, sem,
                   portfolio, totalValue, successCount, errorCount, cpc,
                   pendingAtDeadline, lockVars>>

\* Mutant of BulkSelectTimeout: the "timeout" placeholder is also stored
\* in the cache.
BulkSelectTimeoutCachesPlaceholder(i) ==
    /\ op = "bulk"
    /\ wpc[i] = "select"
    /\ ctxDone
    /\ results' = Append(results, ErrorRecord(coins[i], TimeoutError, now))
    /\ cache' = CachePut(cache, coins[i], ErrorRecord(coins[i], TimeoutError, now))
    /\ wg' = wg - 1
    /\ wpc' = [wpc EXCEPT ![i] = "exit"]
    /\ UNCHANGED <<now, source, apiCalls, failedOnce, fpc, fcoin, fres, handlerVars, streamVars, tickVars, hubVars, op, coins, resultsClosed, ctxDone, sem,
                   portfolio, totalValue, successCount, errorCount, cpc,
                   pendingAtDeadline, lockVars>>

\* case <-ctx.Done(): the worker sends the "timeout" placeholder and
\* returns (wg.Done()), leaving the inner goroutine running.
BulkSelectTimeout(i) ==
    /\ op = "bulk"
    /\ wpc[i] = "select"
    /\ ctxDone
    /\ results' = Append(results, ErrorRecord(coins[i], TimeoutError, now))
    /\ wg' = wg - 1
    /\ wpc' = [wpc EXCEPT ![i] = "exit"]
    /\ UNCHANGED <<fetchVars, handlerVars, streamVars, tickVars, hubVars, op, coins, resultsClosed, ctxDone, sem,
                   portfolio, totalValue, successCount, errorCount, cpc,
                   pendingAtDeadline, lockVars>>

\* The timer of context.WithTimeout fires: ctx.Done() is closed.
Deadline ==
    /\ op = "bulk"
    /\ cpc = "collect"
    /\ ~ctxDone
    /\ ctxDone' = TRUE
    /\ pendingAtDeadline' = {i \in 1..Len(coins) : fpc[i] # "ret"}
    /\ UNCHANGED <<fetchVars, handlerVars, streamVars, tickVars, hubVars, op, coins, wpc, wg, results, resultsClosed, sem,
                   portfolio, totalValue, successCount, errorCount, cpc, lockVars>>

\* Mutant of CloseResults: the closing goroutine is started by the first
\* worker, so that the channel is closed only after some worker has left.
CloseResultsAfterWorker ==
    /\ cpc = "collect"
    /\ wg = 0
    /\ \E i \in Tasks : wpc[i] = "exit"
    /\ ~resultsClosed
    /\ resultsClosed' = TRUE
    /\ UNCHANGED <<fetchVars, handlerVars, streamVars, tickVars, hubVars, op, coins, wpc, wg, results, ctxDone, sem,
                   portfolio, totalValue, successCount, errorCount, cpc,
                   pendingAtDeadline, lockVars>>

\* Mutant of CloseResults: close(results) without wg.Wait().
CloseResultsWithoutWait ==
    /\ cpc = "collect"
    /\ ~resultsClosed
    /\ resultsClosed' = TRUE
    /\ UNCHANGED <<fetchVars, handlerVars, streamVars, tickVars, hubVars, op, coins, wpc, wg, results, ctxDone, sem,
                   portfolio, totalValue, successCount, errorCount, cpc,
                   pendingAtDeadline, lockVars>>

\* go func() { wg.Wait(); close(results) }()
CloseResults ==
    /\ cpc = "collect"
    /\ wg = 0
    /\ ~resultsClosed
    /\ resultsClosed' = TRUE
    /\ UNCHANGED <<fetchVars, handlerVars, streamVars, tickVars, hubVars, op, coins, wpc, wg, results, ctxDone, sem,
                   portfolio, totalValue, successCount, errorCount, cpc,
                   pendingAtDeadline, lockVars>>

\* Mutant of AddSuccess: successCount++ outside the Error == "" branch.
AddSuccessAlways(n, result) == n + 1

\* The collector's running sums after one more record:
\* if result.Error == "" { totalValue += result.Price; successCount++ }
\* else { errorCount++ }
AddValue(total, result) == IF result.Error = NoError THEN total + result.Price ELSE total
AddSuccess(n, result) == IF result.Error = NoError THEN n + 1 ELSE n
AddError(n, result) == IF result.Error = NoError THEN n ELSE n + 1

\* One iteration of `for result := range results`.
Collect ==
    /\ cpc = "collect"
    /\ results # <<>>
    /\ LET result == Head(results) IN
         /\ portfolio' = Append(portfolio, result)
         /\ totalValue' = AddValue(totalValue, result)
         /\ successCount' = AddSuccess(successCount, result)
         /\ errorCount' = AddError(errorCount, result)
    /\ results' = Tail(results)
    /\ UNCHANGED <<fetchVars, handlerVars, streamVars, tickVars, hubVars, op, coins, wpc, wg, resultsClosed, ctxDone, sem,
                   cpc, pendingAtDeadline, lockVars>>

\* The range loop ends on the closed, drained channel and the operation
\* returns its PortfolioResponse. (The deferred cancel() of GetBulkCrypto
\* closes ctx.Done() when no worker is left to observe it; ctxDone keeps
\* meaning that the deadline has expired.)
Return ==
    /\ cpc = "collect"
    /\ results = <<>>
    /\ resultsClosed
    /\ cpc' = "returned"
    /\ UNCHANGED <<fetchVars, handlerVars, streamVars, tickVars, hubVars, op, coins, wpc, wg, results, resultsClosed, ctxDone,
                   sem, portfolio, totalValue, successCount, errorCount,
                   pendingAtDeadline, lockVars>>

\* GetPortfolioRealtime up to the collector loop.
CallPortfolio(cs) ==
    /\ op = "none"
    /\ LaunchWorkers("portfolio", cs)
    /\ sem' = 0
    /\ UNCHANGED <<fetchVars, handlerVars, streamVars, tickVars, hubVars, ctxDone, pendingAtDeadline, lockVars>>

\* Mutant of SemFree: the gate admits one task too many.
SemFreeOffByOne == sem <= SemCap

\* semaphore <- struct{}{}: blocks while all slots are taken.
SemFree == sem < SemCap

\* A GetPortfolioRealtime worker acquires a slot and calls GetSingleCrypto.
PortfolioAcquire(i) ==
    /\ op = "portfolio"
    /\ wpc[i] = "start"
    /\ SemFree
    /\ sem' = sem + 1
    /\ wpc' = [wpc EXCEPT ![i] = "fetch"]
    /\ fpc' = [fpc EXCEPT ![i] = "read"]
    /\ fcoin' = [fcoin EXCEPT ![i] = coins[i]]
    /\ UNCHANGED <<cache, now, source, apiCalls, failedOnce, fres, handlerVars, streamVars, tickVars, hubVars, op, coins, wg, results,
                   resultsClosed, ctxDone, portfolio, totalValue, successCount,
                   errorCount, cpc, pendingAtDeadline, lockVars>>

\* Mutant of PortfolioFinish: the slot is released on the success path
\* only; the early return of the error path skips the release.
PortfolioFinishLeaksOnError(i) ==
    /\ op = "portfolio"
    /\ wpc[i] = "fetch"
    /\ fpc[i] = "ret"
    /\ results' = Append(results, ResultRecord(coins[i], fres[i]))
    /\ sem' = IF fres[i].err # NoError THEN sem ELSE sem - 1
    /\ wg' = wg - 1
    /\ wpc' = [wpc EXCEPT ![i] = "exit"]
    /\ UNCHANGED <<fetchVars, handlerVars, streamVars, tickVars, hubVars, op, coins, resultsClosed, ctxDone,
                   portfolio, totalValue, successCount, errorCount, cpc,
                   pendingAtDeadline, lockVars>>

\* GetSingleCrypto has returned: the worker sends the record or the
\* failure placeholder and returns, which runs its deferred calls, the
\* release of the slot and then wg.Done(). None of the three can block (the
\* channel has a place per worker, the semaphore holds the worker's own
\* token), so they are taken as one step.
PortfolioFinish(i) ==
    /\ op = "portfolio"
    /\ wpc[i] = "fetch"
    /\ fpc[i] = "ret"
    /\ results' = Append(results, ResultRecord(coins[i], fres[i]))
    /\ sem' = sem - 1
    /\ wg' = wg - 1
    /\ wpc' = [wpc EXCEPT ![i] = "exit"]
    /\ UNCHANGED <<fetchVars, handlerVars, streamVars, tickVars, hubVars, op, coins, resultsClosed, ctxDone,
                   portfolio, totalValue, successCount, errorCount, cpc,
                   pendingAtDeadline, lockVars>>

\* ------------------------------------------- single fetches and the cache

\* Goroutines of the HTTP server that call GetSingleCrypto concurrently.
Callers == 1..MaxCallers

\* CryptoHandler.GetSingleCrypto calls s.GetSingleCrypto(coinID); the
\* request is served by the first idle goroutine.
CallSingle(i, c) ==
    /\ fpc[i] = "none"
    /\ \A j \in Callers : j < i => fpc[j] # "none"
    /\ callsMade < MaxCalls
    /\ callsMade' = callsMade + 1
    /\ fpc' = [fpc EXCEPT ![i] = "read"]
    /\ fcoin' = [fcoin EXCEPT ![i] = c]
    /\ UNCHANGED <<cache, now, source, apiCalls, failedOnce, fres, bulkVars, stats, bulkReq, hubVars, streamVars, tickVars, lockVars>>

\* GetSingleCrypto has returned and the handler writes its response.
SingleReturn(i) ==
    /\ fpc[i] = "ret"
    /\ fpc' = [fpc EXCEPT ![i] = "none"]
    /\ fres' = [fres EXCEPT ![i] = [crypto |-> NilCrypto, err |-> NoError]]
    /\ fcoin' = [fcoin EXCEPT ![i] = ""]
    /\ UNCHANGED <<cache, now, source, apiCalls, failedOnce, bulkVars, handlerVars, streamVars, tickVars, hubVars, lockVars>>

\* Steps of the GetSingleCrypto invocations made by the handler.
CallerFetch == \E i \in Callers : FetchStep(i) /\ UNCHANGED <<bulkVars, handlerVars, streamVars, tickVars, hubVars, lockVars>>

\* Mutant of ClearCache: only the entries older than the TTL are removed.
ClearCacheDropsStaleOnly ==
    /\ cache # <<>>
    /\ cache' = [c \in {k \in DOMAIN cache : CacheFresh(cache[k])} |-> cache[c]]
    /\ cache' # cache
    /\ UNCHANGED <<now, source, apiCalls, failedOnce, fpc, fcoin, fres, bulkVars,
                   handlerVars, streamVars, tickVars, hubVars, lockVars>>

\* ClearCache: s.cache = make(map[string]models.CryptoData) under s.mu.Lock().
ClearCache ==
    /\ cache # <<>>
    /\ cache' = <<>>
    /\ UNCHANGED <<now, source, apiCalls, failedOnce, fpc, fcoin, fres, bulkVars,
                   handlerVars, streamVars, tickVars, hubVars, lockVars>>

\* The map GetCacheStats builds under s.mu.RLock().
CacheStatsOf(c) == [cached_coins |-> Cardinality(DOMAIN c), cache_keys |-> DOMAIN c]

GetCacheStats ==
    /\ stats' = CacheStatsOf(cache)
    /\ stats' # stats
    /\ UNCHANGED <<fetchVars, bulkVars, callsMade, bulkReq, hubVars, streamVars, tickVars, lockVars>>

\* The wall clock advances.
Tick(d) ==
    /\ now + d <= MaxTime
    /\ now' = now + d
    /\ UNCHANGED <<cache, source, apiCalls, failedOnce, fpc, fcoin, fres, bulkVars,
                   handlerVars, streamVars, tickVars, hubVars, lockVars>>

\* The upstream API starts to behave as mode m for every coin.
SourceChange(m) ==
    /\ source # [c \in Symbols |-> m]
    /\ source' = [c \in Symbols |-> m]
    /\ UNCHANGED <<cache, now, apiCalls, failedOnce, fpc, fcoin, fres, bulkVars,
                   handlerVars, streamVars, tickVars, hubVars, lockVars>>

\* ------------------------------------------------------- subscriber hub

\* delete(s.subscribers, id)
MapDelete(m, id) == [k \in (DOMAIN m) \ {id} |-> m[k]]

\* s.subscribers[id] = eventChan
MapPut(m, id, ch) == [k \in (DOMAIN m) \cup {id} |-> IF k = id THEN ch ELSE m[k]]

\* Mutant of ChanSend: the event is enqueued twice.
ChanSendTwice(ch, event) == [chans EXCEPT ![ch].buf = Append(Append(@, event), event)]

\* eventChan <- event on a channel with room.
ChanSend(ch, event) == [chans EXCEPT ![ch].buf = Append(@, event)]

\* Mutant of AddSubscriber: an id that is already registered keeps its
\* channel, and the new channel is handed out without being registered.
AddSubscriberKeepsOld(id) ==
    /\ subReaders = 0
    /\ Len(chans) < MaxChans
    /\ chans' = Append(chans, MakeChan)
    /\ subscribers' = IF id \in DOMAIN subscribers THEN subscribers
                      ELSE MapPut(subscribers, id, Len(chans) + 1)
    /\ UNCHANGED <<bpc, btodo, bcur, bsnap, waited, bsent, bdropped, bfull,
                   subReaders, consumed, panicked, fetchVars, bulkVars, handlerVars, streamVars, tickVars, lockVars>>

\* Mutant of AddSubscriber: the channel a registered id had is closed when
\* the entry is replaced.
AddSubscriberClosesOld(id) ==
    /\ subReaders = 0
    /\ Len(chans) < MaxChans
    /\ chans' = Append(IF id \in DOMAIN subscribers
                       THEN [chans EXCEPT ![subscribers[id]].closed = TRUE]
                       ELSE chans, MakeChan)
    /\ subscribers' = MapPut(subscribers, id, Len(chans) + 1)
    /\ UNCHANGED <<bpc, btodo, bcur, bsnap, waited, bsent, bdropped, bfull,
                   subReaders, consumed, panicked, fetchVars, bulkVars, handlerVars, streamVars, tickVars, lockVars>>

\* AddSubscriber under s.subMu.Lock(): a new channel replaces any entry
\* the id had.
AddSubscriber(id) ==
    /\ subReaders = 0
    /\ Len(chans) < MaxChans
    /\ chans' = Append(chans, MakeChan)
    /\ subscribers' = MapPut(subscribers, id, Len(chans) + 1)
    /\ UNCHANGED <<bpc, btodo, bcur, bsnap, waited, bsent, bdropped, bfull,
                   subReaders, consumed, panicked, fetchVars, bulkVars, handlerVars, streamVars, tickVars, lockVars>>

\* Mutant of RemoveSubscriber: the channel is closed but its entry stays
\* in the registry.
RemoveSubscriberKeepsEntry(id) ==
    /\ subReaders = 0
    /\ IF id \in DOMAIN subscribers
       THEN IF chans[subscribers[id]].closed
            THEN /\ panicked' = TRUE
                 /\ UNCHANGED <<chans, subscribers>>
            ELSE /\ chans' = [chans EXCEPT ![subscribers[id]].closed = TRUE]
                 /\ UNCHANGED <<subscribers, panicked>>
       ELSE UNCHANGED <<chans, subscribers, panicked>>
    /\ UNCHANGED <<bpc, btodo, bcur, bsnap, waited, bsent, bdropped, bfull,
                   subReaders, consumed, fetchVars, bulkVars, handlerVars, streamVars, tickVars, lockVars>>

\* Mutant of RemoveSubscriber: no "exists" test, so that for an id without
\* entry the nil channel the map yields is closed, which panics.
RemoveSubscriberUnchecked(id) ==
    /\ subReaders = 0
    /\ IF id \in DOMAIN subscribers /\ ~chans[subscribers[id]].closed
       THEN /\ chans' = [chans EXCEPT ![subscribers[id]].closed = TRUE]
            /\ subscribers' = MapDelete(subscribers, id)
            /\ UNCHANGED panicked
       ELSE /\ panicked' = TRUE
            /\ UNCHANGED <<chans, subscribers>>
    /\ UNCHANGED <<bpc, btodo, bcur, bsnap, waited, bsent, bdropped, bfull,
                   subReaders, consumed, fetchVars, bulkVars, handlerVars, streamVars, tickVars, lockVars>>

\* Mutant of RemoveSubscriber: the call closes the channel of every
\* registered subscriber and deletes only the entry of id.
RemoveSubscriberClosesAll(id) ==
    /\ subReaders = 0
    /\ IF id \in DOMAIN subscribers
       THEN /\ chans' = [ch \in 1..Len(chans) |->
                            IF \E other \in DOMAIN subscribers : subscribers[other] = ch
                            THEN [chans[ch] EXCEPT !.closed = TRUE]
                            ELSE chans[ch]]
            /\ subscribers' = MapDelete(subscribers, id)
            /\ UNCHANGED panicked
       ELSE UNCHANGED <<chans, subscribers, panicked>>
    /\ UNCHANGED <<bpc, btodo, bcur, bsnap, waited, bsent, bdropped, bfull,
                   subReaders, consumed, fetchVars, bulkVars, handlerVars, streamVars, tickVars, lockVars>>

\* RemoveSubscriber under s.subMu.Lock(): closes and deletes the entry if
\* it exists (close of a closed channel panics before the delete).
RemoveSubscriber(id) ==
    /\ subReaders = 0
    /\ IF id \in DOMAIN subscribers
       THEN IF chans[subscribers[id]].closed
            THEN /\ panicked' = TRUE
                 /\ UNCHANGED <<chans, subscribers>>
            ELSE /\ chans' = [chans EXCEPT ![subscribers[id]].closed = TRUE]
                 /\ subscribers' = MapDelete(subscribers, id)
                 /\ UNCHANGED panicked
       ELSE UNCHANGED <<chans, subscribers, panicked>>
    /\ UNCHANGED <<bpc, btodo, bcur, bsnap, waited, bsent, bdropped, bfull,
                   subReaders, consumed, fetchVars, bulkVars, handlerVars, streamVars, tickVars, lockVars>>

\* BroadcastToSubscribers takes s.subMu.RLock() and starts its range loop.
BroadcastStart(b) ==
    /\ bpc[b] = "idle"
    /\ subReaders' = subReaders + 1
    /\ bpc' = [bpc EXCEPT ![b] = "range"]
    /\ btodo' = [btodo EXCEPT ![b] = DOMAIN subscribers]
    /\ bsnap' = [bsnap EXCEPT ![b] = DOMAIN subscribers]
    /\ UNCHANGED <<subscribers, chans, bcur, waited, bsent, bdropped, bfull,
                   consumed, panicked, fetchVars, bulkVars, handlerVars, streamVars, tickVars, lockVars>>

\* The record of a delivery: subscriber id got the event after the call
\* had waited w milliseconds.
Delivered(sent, id, w) == MapPut(sent, id, w)

\* One iteration of the range loop (the map's order is unspecified): the
\* select sends at once if the channel has room and blocks otherwise; a
\* send on a closed channel panics, and the deferred RUnlock ends the call.
BroadcastVisit(b, id) ==
    /\ bpc[b] = "range"
    /\ id \in btodo[b]
    /\ btodo' = [btodo EXCEPT ![b] = @ \ {id}]
    /\ IF chans[subscribers[id]].closed
       THEN /\ panicked' = TRUE
            /\ bpc' = [bpc EXCEPT ![b] = "done"]
            /\ subReaders' = subReaders - 1
            /\ UNCHANGED <<chans, bsent, bcur, bfull>>
       ELSE IF Len(chans[subscribers[id]].buf) < QueueCap
       THEN /\ chans' = ChanSend(subscribers[id], b)
            /\ bsent' = [bsent EXCEPT ![b] = Delivered(@, id, waited[b])]
            /\ UNCHANGED <<bpc, bcur, bfull, subReaders, panicked>>
       ELSE /\ bpc' = [bpc EXCEPT ![b] = "select"]
            /\ bcur' = [bcur EXCEPT ![b] = id]
            /\ bfull' = [bfull EXCEPT ![b] = @ \cup {id}]
            /\ UNCHANGED <<chans, bsent, subReaders, panicked>>
    /\ UNCHANGED <<subscribers, bsnap, waited, bdropped, consumed,
                   fetchVars, bulkVars, handlerVars, streamVars, tickVars, lockVars>>

\* Mutant of BroadcastTimeout: the call gives up on the first timeout and
\* leaves the loop.
BroadcastTimeoutLeavesLoop(b) ==
    /\ bpc[b] = "select"
    /\ waited' = [waited EXCEPT ![b] = @ + SendTimeout]
    /\ bdropped' = [bdropped EXCEPT ![b] = @ \cup {bcur[b]}]
    /\ bpc' = [bpc EXCEPT ![b] = "range"]
    /\ bcur' = [bcur EXCEPT ![b] = ""]
    /\ btodo' = [btodo EXCEPT ![b] = {}]
    /\ UNCHANGED <<subscribers, chans, subReaders, bsnap, bsent, bfull,
                   consumed, panicked, fetchVars, bulkVars, handlerVars, streamVars, tickVars, lockVars>>

\* Mutant of BroadcastTimeout: a plain blocking send, with no timer to
\* end the wait.
BroadcastTimeoutNeverFires(b) ==
    /\ bpc[b] = "select"
    /\ UNCHANGED vars

\* Mutant of BroadcastTimeout: the waits at saturated subscribers run side
\* by side, so that the call has waited 100 ms however many there are.
BroadcastTimeoutInParallel(b) ==
    /\ bpc[b] = "select"
    /\ waited' = [waited EXCEPT ![b] = SendTimeout]
    /\ bdropped' = [bdropped EXCEPT ![b] = @ \cup {bcur[b]}]
    /\ bpc' = [bpc EXCEPT ![b] = "range"]
    /\ bcur' = [bcur EXCEPT ![b] = ""]
    /\ UNCHANGED <<subscribers, chans, subReaders, btodo, bsnap, bsent, bfull,
                   consumed, panicked, fetchVars, bulkVars, handlerVars, streamVars, tickVars, lockVars>>

\* case <-time.After(100 * time.Millisecond): the event is dropped for
\* this subscriber and the loop goes on.
BroadcastTimeout(b) ==
    /\ bpc[b] = "select"
    /\ waited' = [waited EXCEPT ![b] = @ + SendTimeout]
    /\ bdropped' = [bdropped EXCEPT ![b] = @ \cup {bcur[b]}]
    /\ bpc' = [bpc EXCEPT ![b] = "range"]
    /\ bcur' = [bcur EXCEPT ![b] = ""]
    /\ UNCHANGED <<subscribers, chans, subReaders, btodo, bsnap, bsent, bfull,
                   consumed, panicked, fetchVars, bulkVars, handlerVars, streamVars, tickVars, lockVars>>

\* The loop is over; the deferred s.subMu.RUnlock() runs.
BroadcastReturn(b) ==
    /\ bpc[b] = "range"
    /\ btodo[b] = {}
    /\ bpc' = [bpc EXCEPT ![b] = "done"]
    /\ subReaders' = subReaders - 1
    /\ UNCHANGED <<subscribers, chans, btodo, bcur, bsnap, waited, bsent,
                   bdropped, bfull, consumed, panicked, fetchVars, bulkVars, handlerVars, streamVars, tickVars, lockVars>>

\* Broadcast calls blocked in a send on channel ch.
BlockedOn(ch) ==
    {b \in DOMAIN bpc : bpc[b] = "select" /\ subscribers[bcur[b]] = ch}

\* Mutant of Consume: the consumer is handed the newest event of the
\* channel instead of the oldest.
ConsumeNewest(ch) ==
    /\ consumed < MaxConsumes
    /\ chans[ch].buf # <<>>
    /\ consumed' = consumed + 1
    /\ IF BlockedOn(ch) = {}
       THEN /\ chans' = [chans EXCEPT ![ch].buf = SubSeq(@, 1, Len(@) - 1)]
            /\ UNCHANGED <<bpc, bcur, waited, bsent>>
       ELSE \E b \in BlockedOn(ch), w \in PartialWaits :
               /\ chans' = [chans EXCEPT ![ch].buf = Append(SubSeq(@, 1, Len(@) - 1), b)]
               /\ waited' = [waited EXCEPT ![b] = @ + w]
               /\ bsent' = [bsent EXCEPT ![b] = Delivered(@, bcur[b], waited[b] + w)]
               /\ bpc' = [bpc EXCEPT ![b] = "range"]
               /\ bcur' = [bcur EXCEPT ![b] = ""]
    /\ UNCHANGED <<subscribers, subReaders, btodo, bsnap, bdropped, bfull,
                   panicked, fetchVars, bulkVars, handlerVars, streamVars, tickVars, lockVars>>

\* WebSocketHandler's "for event := range eventChan" receives one event.
\* A receive from a full channel completes the send of a call blocked on
\* it, before that call's timer has fired.
Consume(ch) ==
    /\ consumed < MaxConsumes
    /\ chans[ch].buf # <<>>
    /\ consumed' = consumed + 1
    /\ IF BlockedOn(ch) = {}
       THEN /\ chans' = [chans EXCEPT ![ch].buf = Tail(@)]
            /\ UNCHANGED <<bpc, bcur, waited, bsent>>
       ELSE \E b \in BlockedOn(ch), w \in PartialWaits :
               /\ chans' = [chans EXCEPT ![ch].buf = Append(Tail(@), b)]
               /\ waited' = [waited EXCEPT ![b] = @ + w]
               /\ bsent' = [bsent EXCEPT ![b] = Delivered(@, bcur[b], waited[b] + w)]
               /\ bpc' = [bpc EXCEPT ![b] = "range"]
               /\ bcur' = [bcur EXCEPT ![b] = ""]
    /\ UNCHANGED <<subscribers, subReaders, btodo, bsnap, bdropped, bfull,
                   panicked, fetchVars, bulkVars, handlerVars, streamVars, tickVars, lockVars>>

\* ------------------------------------------------ single-consumer stream

\* Everything but the fetches and the stream.
outsideStream == <<bulkVars, handlerVars, hubVars, tickVars, lockVars>>

\* models.PriceUpdate built from a fetched record (the simulated price
\* fluctuation is left out).
PriceUpdate(crypto) == [CoinID |-> crypto.ID, UpdateType |-> "price"]

\* models.StreamEvent carrying a price update.
StreamEvent(update) == [Type |-> "price_update", Data |-> update]

\* Requests StreamPrices accepts: a non-empty coins parameter and
\* max_updates (0 when absent).
StreamInputs ==
    [Coins : SeqsUpTo(Symbols, MaxStreamCoins) \ {<<>>}, MaxUpdates : 0..MaxUpdatesArg]

\* StreamPrices calls StreamPriceUpdates: the channel is made, the
\* goroutine starts and the handler ranges over the channel.
CallStream(config) ==
    /\ spc = "none"
    /\ spc' = "select"
    /\ sconf' = config
    /\ updateCount' = 0
    /\ eventChan' = MakeChan
    /\ hpc' = "range"
    /\ UNCHANGED <<sctx, swpc, swg, updateChan, updateClosed, emitted, tickEmitted,
                   tickDropped, fetchVars, outsideStream>>

\* case <-ticker.C: streamPriceUpdates starts one fetch goroutine per coin.
StreamTick ==
    /\ spc = "select"
    /\ updateCount < MaxTicks
    /\ spc' = "tick"
    /\ swg' = Len(sconf.Coins)
    /\ swpc' = [i \in Tasks |-> IF i <= Len(sconf.Coins) THEN "fetch" ELSE "none"]
    /\ fpc' = [i \in Tasks |-> IF i <= Len(sconf.Coins) THEN "read" ELSE fpc[i]]
    /\ fcoin' = [i \in Tasks |-> IF i <= Len(sconf.Coins) THEN sconf.Coins[i] ELSE fcoin[i]]
    /\ updateChan' = <<>>
    /\ updateClosed' = FALSE
    /\ tickEmitted' = 0
    /\ tickDropped' = 0
    /\ UNCHANGED <<cache, now, source, apiCalls, failedOnce, fres, sconf, updateCount,
                   sctx, eventChan, hpc, emitted, outsideStream>>

\* Mutant of StreamCancelSeen: the goroutine returns without closing the
\* event channel.
StreamCancelSeenNoClose ==
    /\ spc = "select"
    /\ sctx
    /\ spc' = "done"
    /\ UNCHANGED <<sconf, updateCount, sctx, eventChan, swpc, swg, updateChan,
                   updateClosed, hpc, emitted, tickEmitted, tickDropped, fetchVars,
                   outsideStream>>

\* case <-ctx.Done(): return; the deferred close(eventChan) runs.
StreamCancelSeen ==
    /\ spc = "select"
    /\ sctx
    /\ spc' = "done"
    /\ eventChan' = [eventChan EXCEPT !.closed = TRUE]
    /\ UNCHANGED <<sconf, updateCount, sctx, swpc, swg, updateChan, updateClosed, hpc,
                   emitted, tickEmitted, tickDropped, fetchVars, outsideStream>>

\* Steps of the GetSingleCrypto calls of the tick's goroutines.
StreamWorkerFetch ==
    \E i \in Tasks :
        /\ swpc[i] = "fetch"
        /\ FetchStep(i)
        /\ UNCHANGED <<streamVars, tickVars, outsideStream>>

\* Mutant of StreamWorkerFinish: the error is not tested and an update is
\* sent for a failed fetch too.
StreamWorkerFinishSendsOnError(i) ==
    /\ swpc[i] = "fetch"
    /\ fpc[i] = "ret"
    /\ updateChan' = Append(updateChan, PriceUpdate(fres[i].crypto))
    /\ swg' = swg - 1
    /\ swpc' = [swpc EXCEPT ![i] = "done"]
    /\ fpc' = [fpc EXCEPT ![i] = "none"]
    /\ UNCHANGED <<cache, now, source, apiCalls, failedOnce, fcoin, fres, spc, sconf,
                   updateCount, sctx, eventChan, updateClosed, hpc, emitted,
                   tickEmitted, tickDropped, outsideStream>>

\* A fetch goroutine after GetSingleCrypto: on an error it only logs and
\* returns; otherwise it sends the update; the deferred wg.Done() runs.
StreamWorkerFinish(i) ==
    /\ swpc[i] = "fetch"
    /\ fpc[i] = "ret"
    /\ updateChan' = IF fres[i].err = NoError
                     THEN Append(updateChan, PriceUpdate(fres[i].crypto))
                     ELSE updateChan
    /\ swg' = swg - 1
    /\ swpc' = [swpc EXCEPT ![i] = "done"]
    /\ fpc' = [fpc EXCEPT ![i] = "none"]
    /\ UNCHANGED <<cache, now, source, apiCalls, failedOnce, fcoin, fres, spc, sconf,
                   updateCount, sctx, eventChan, updateClosed, hpc, emitted,
                   tickEmitted, tickDropped, outsideStream>>

\* wg.Wait(); close(updateChan)
StreamCloseUpdates ==
    /\ spc = "tick"
    /\ swg = 0
    /\ ~updateClosed
    /\ updateClosed' = TRUE
    /\ UNCHANGED <<spc, sconf, updateCount, sctx, eventChan, swpc, swg, updateChan, hpc,
                   emitted, tickEmitted, tickDropped, fetchVars, outsideStream>>

\* Mutant of StreamEmit: a plain "eventChan <- event", which waits for
\* room.
StreamEmitWaitsForRoom ==
    /\ spc = "tick"
    /\ updateChan # <<>>
    /\ Len(eventChan.buf) < QueueCap
    /\ updateChan' = Tail(updateChan)
    /\ eventChan' = [eventChan EXCEPT !.buf = Append(@, StreamEvent(Head(updateChan)))]
    /\ emitted' = emitted + 1
    /\ tickEmitted' = tickEmitted + 1
    /\ UNCHANGED tickDropped
    /\ UNCHANGED <<spc, sconf, updateCount, sctx, swpc, swg, updateClosed, hpc,
                   fetchVars, outsideStream>>

\* for update := range updateChan: the event is sent if the channel has
\* room; with a full channel the select ends in the 100 ms timeout and the
\* event is dropped (a consumer that makes room first is a StreamConsume
\* step before this one).
StreamEmit ==
    /\ spc = "tick"
    /\ updateChan # <<>>
    /\ updateChan' = Tail(updateChan)
    /\ IF Len(eventChan.buf) < QueueCap
       THEN /\ eventChan' = [eventChan EXCEPT !.buf = Append(@, StreamEvent(Head(updateChan)))]
            /\ emitted' = emitted + 1
            /\ tickEmitted' = tickEmitted + 1
            /\ UNCHANGED tickDropped
       ELSE /\ tickDropped' = tickDropped + 1
            /\ UNCHANGED <<eventChan, emitted, tickEmitted>>
    /\ UNCHANGED <<spc, sconf, updateCount, sctx, swpc, swg, updateClosed, hpc,
                   fetchVars, outsideStream>>

\* Mutant of StreamTickEnd: streamPriceUpdates returns when it finds the
\* update channel empty, without waiting for it to be closed.
StreamTickEndBeforeFetches ==
    /\ spc = "tick"
    /\ updateChan = <<>>
    /\ updateCount' = updateCount + 1
    /\ swpc' = [i \in Tasks |-> "none"]
    /\ IF sconf.MaxUpdates > 0 /\ updateCount + 1 >= sconf.MaxUpdates
       THEN /\ spc' = "done"
            /\ eventChan' = [eventChan EXCEPT !.closed = TRUE]
       ELSE /\ spc' = "select"
            /\ UNCHANGED eventChan
    /\ UNCHANGED <<sconf, sctx, swg, updateChan, updateClosed, hpc, emitted,
                   tickEmitted, tickDropped, fetchVars, outsideStream>>

\* Mutant of StreamTickEnd: the limit is tested with > instead of >=.
StreamTickEndOneMore ==
    /\ spc = "tick"
    /\ updateChan = <<>>
    /\ updateClosed
    /\ updateCount' = updateCount + 1
    /\ swpc' = [i \in Tasks |-> "none"]
    /\ IF sconf.MaxUpdates > 0 /\ updateCount + 1 > sconf.MaxUpdates
       THEN /\ spc' = "done"
            /\ eventChan' = [eventChan EXCEPT !.closed = TRUE]
       ELSE /\ spc' = "select"
            /\ UNCHANGED eventChan
    /\ UNCHANGED <<sconf, sctx, swg, updateChan, updateClosed, hpc, emitted,
                   tickEmitted, tickDropped, fetchVars, outsideStream>>

\* streamPriceUpdates returns when updateChan is closed and drained;
\* updateCount++, and with MaxUpdates > 0 reached the goroutine returns
\* and the deferred close(eventChan) runs.
StreamTickEnd ==
    /\ spc = "tick"
    /\ updateChan = <<>>
    /\ updateClosed
    /\ updateCount' = updateCount + 1
    /\ swpc' = [i \in Tasks |-> "none"]
    /\ IF sconf.MaxUpdates > 0 /\ updateCount + 1 >= sconf.MaxUpdates
       THEN /\ spc' = "done"
            /\ eventChan' = [eventChan EXCEPT !.closed = TRUE]
       ELSE /\ spc' = "select"
            /\ UNCHANGED eventChan
    /\ UNCHANGED <<sconf, sctx, swg, updateChan, updateClosed, hpc, emitted,
                   tickEmitted, tickDropped, fetchVars, outsideStream>>

\* StreamPrices: for event := range eventChan writes one event to the
\* client and leaves the loop if ctx.Err() != nil.
StreamConsume ==
    /\ hpc = "range"
    /\ eventChan.buf # <<>>
    /\ eventChan' = [eventChan EXCEPT !.buf = Tail(@)]
    /\ hpc' = IF sctx THEN "returned" ELSE "range"
    /\ UNCHANGED <<spc, sconf, updateCount, sctx, swpc, swg, updateChan, updateClosed,
                   emitted, tickEmitted, tickDropped, fetchVars, outsideStream>>

\* The range loop ends on the closed, drained channel; StreamPrices
\* returns and its deferred cancel() runs.
StreamHandlerEnd ==
    /\ hpc = "range"
    /\ eventChan.buf = <<>>
    /\ eventChan.closed
    /\ hpc' = "returned"
    /\ sctx' = TRUE
    /\ UNCHANGED <<spc, sconf, updateCount, eventChan, swpc, swg, updateChan,
                   updateClosed, emitted, tickEmitted, tickDropped, fetchVars,
                   outsideStream>>

\* The client goes away: the request's context, parent of ctx, is cancelled.
ClientDisconnect ==
    /\ hpc = "range"
    /\ ~sctx
    /\ sctx' = TRUE
    /\ UNCHANGED <<spc, sconf, updateCount, eventChan, swpc, swg, updateChan,
                   updateClosed, hpc, emitted, tickEmitted, tickDropped, fetchVars,
                   outsideStream>>

\* ------------------------------------------------------ broadcast mode

\* The goroutine for the k-th coin of round r, and the round and the coin
\* of goroutine w.
WorkerOf(r, k) == (r - 1) * Len(tcoins) + k
WorkersOf(r) == {WorkerOf(r, k) : k \in 1..Len(tcoins)}
RoundOf(w) == ((w - 1) \div Len(tcoins)) + 1
CoinOf(w) == tcoins[((w - 1) % Len(tcoins)) + 1]

\* go cryptoService.StartPriceStreaming(ctx, popularCoins, interval): the
\* ticker is created and the loop reaches its select.
StartPriceStreaming(cs) ==
    /\ tpc = "none"
    /\ tpc' = "select"
    /\ tcoins' = cs
    /\ UNCHANGED <<tctx, ticks, rounds, rseen, rpc, bevent, fetchVars, bulkVars,
                   handlerVars, hubVars, streamVars, lockVars>>

\* Mutant of TickerTick: the round is started without looking at the
\* registry.
TickerTickNoCheck ==
    /\ tpc = "select"
    /\ ticks < MaxTicks
    /\ rounds < MaxRounds
    /\ WorkersOf(rounds + 1) \subseteq RoundWorkers
    /\ ticks' = ticks + 1
    /\ rounds' = rounds + 1
    /\ rseen' = Append(rseen, DOMAIN subscribers)
    /\ rpc' = [w \in RoundWorkers |->
                  IF w \in WorkersOf(rounds + 1) THEN "fetch" ELSE rpc[w]]
    /\ fpc' = [i \in Tasks |-> IF i \in WorkersOf(rounds + 1) THEN "read" ELSE fpc[i]]
    /\ fcoin' = [i \in Tasks |->
                    IF i \in WorkersOf(rounds + 1) THEN CoinOf(i) ELSE fcoin[i]]
    /\ UNCHANGED <<cache, now, source, apiCalls, failedOnce, fres, tpc, tcoins, tctx,
                   bevent, bulkVars, handlerVars, hubVars, streamVars, lockVars>>

\* case <-ticker.C: hasSubscribers is read under the read lock; without
\* subscribers the loop continues, otherwise a goroutine is started that
\* starts one goroutine per coin, each calling GetSingleCrypto. The loop
\* does not wait for it.
TickerTick ==
    /\ tpc = "select"
    /\ ticks < MaxTicks
    /\ Cardinality(DOMAIN subscribers) > 0
          => rounds < MaxRounds /\ WorkersOf(rounds + 1) \subseteq RoundWorkers
    /\ ticks' = ticks + 1
    /\ IF Cardinality(DOMAIN subscribers) > 0
       THEN /\ rounds' = rounds + 1
            /\ rseen' = Append(rseen, DOMAIN subscribers)
            /\ rpc' = [w \in RoundWorkers |->
                          IF w \in WorkersOf(rounds + 1) THEN "fetch" ELSE rpc[w]]
            /\ fpc' = [i \in Tasks |->
                          IF i \in WorkersOf(rounds + 1) THEN "read" ELSE fpc[i]]
            /\ fcoin' = [i \in Tasks |->
                            IF i \in WorkersOf(rounds + 1) THEN CoinOf(i) ELSE fcoin[i]]
       ELSE UNCHANGED <<rounds, rseen, rpc, fpc, fcoin>>
    /\ UNCHANGED <<cache, now, source, apiCalls, failedOnce, fres, tpc, tcoins, tctx,
                   bevent, bulkVars, handlerVars, hubVars, streamVars, lockVars>>

\* The owner of ctx cancels it.
TickerCancel ==
    /\ tpc = "select"
    /\ ~tctx
    /\ tctx' = TRUE
    /\ UNCHANGED <<tpc, tcoins, ticks, rounds, rseen, rpc, bevent, fetchVars, bulkVars,
                   handlerVars, hubVars, streamVars, lockVars>>

\* case <-ctx.Done(): return; the deferred ticker.Stop() runs. The
\* goroutines of the rounds are not waited for.
TickerCancelSeen ==
    /\ tpc = "select"
    /\ tctx
    /\ tpc' = "done"
    /\ UNCHANGED <<tcoins, tctx, ticks, rounds, rseen, rpc, bevent, fetchVars, bulkVars,
                   handlerVars, hubVars, streamVars, lockVars>>

\* A round goroutine's GetSingleCrypto call takes a step.
RoundWorkerFetch ==
    \E w \in RoundWorkers :
        /\ rpc[w] = "fetch"
        /\ FetchStep(w)
        /\ UNCHANGED <<bulkVars, handlerVars, hubVars, streamVars, tickVars, lockVars>>

\* Mutant of RoundWorkerFetched: the goroutine returns without
\* broadcasting after a successful fetch too.
RoundWorkerFetchedNoBroadcast(w) ==
    /\ rpc[w] = "fetch"
    /\ fpc[w] = "ret"
    /\ fpc' = [fpc EXCEPT ![w] = "none"]
    /\ rpc' = [rpc EXCEPT ![w] = "done"]
    /\ UNCHANGED <<cache, now, source, apiCalls, failedOnce, fcoin, fres, tpc, tcoins,
                   tctx, ticks, rounds, rseen, bevent, bulkVars, handlerVars, hubVars,
                   streamVars, lockVars>>

\* A round goroutine after GetSingleCrypto: on an error it returns (the
\* deferred wg.Done() runs); otherwise it builds the price update and the
\* event it is going to broadcast.
RoundWorkerFetched(w) ==
    /\ rpc[w] = "fetch"
    /\ fpc[w] = "ret"
    /\ fpc' = [fpc EXCEPT ![w] = "none"]
    /\ IF fres[w].err # NoError
       THEN /\ rpc' = [rpc EXCEPT ![w] = "done"]
            /\ UNCHANGED bevent
       ELSE /\ rpc' = [rpc EXCEPT ![w] = "call"]
            /\ bevent' = [bevent EXCEPT ![w] = StreamEvent(PriceUpdate(fres[w].crypto))]
    /\ UNCHANGED <<cache, now, source, apiCalls, failedOnce, fcoin, fres, tpc, tcoins,
                   tctx, ticks, rounds, rseen, bulkVars, handlerVars, hubVars,
                   streamVars, lockVars>>

\* WebSocketHandler for a new connection: the subscriber id is a fresh
\* UUID (the ids are interchangeable, the first unused one is taken).
ClientConnect(id) ==
    /\ id \notin DOMAIN subscribers
    /\ \A other \in SubIDs \ DOMAIN subscribers :
          other = id \/ other \notin {"c1", "c2"} \/ (other = "c2" /\ id = "c1")
    /\ AddSubscriber(id)

\* WebSocketHandler returns: the deferred RemoveSubscriber(subscriberID)
\* runs for the id it added.
ClientLeave(id) ==
    /\ id \in DOMAIN subscribers
    /\ RemoveSubscriber(id)

\* s.BroadcastToSubscribers(event) is entered by a round goroutine.
RoundBroadcastStart(w) ==
    /\ rpc[w] = "call"
    /\ BroadcastStart(CallOf(w))

\* BroadcastToSubscribers has returned to the round goroutine, which
\* returns (the deferred wg.Done() runs).
RoundWorkerDone(w) ==
    /\ rpc[w] = "call"
    /\ bpc[CallOf(w)] = "done"
    /\ rpc' = [rpc EXCEPT ![w] = "done"]
    /\ UNCHANGED <<tpc, tcoins, tctx, ticks, rounds, rseen, bevent, fetchVars, bulkVars,
                   handlerVars, hubVars, streamVars, lockVars>>

\* ----------------------------------------------------------- specifications

\* Mutant of WorkerFetch: a fetch that completes after its worker has
\* left appends its result to the report.
WorkerFetchDeliversLate ==
    \E i \in Tasks :
        /\ FetchStep(i)
        /\ IF wpc[i] = "exit" /\ fpc'[i] = "ret"
           THEN /\ portfolio' = Append(portfolio, fres'[i].crypto)
                /\ UNCHANGED <<op, coins, wpc, wg, results, resultsClosed, ctxDone, sem,
                               totalValue, successCount, errorCount, cpc,
                               pendingAtDeadline>>
           ELSE UNCHANGED bulkVars
        /\ UNCHANGED <<handlerVars, streamVars, tickVars, hubVars, lockVars>>

\* Mutant of WorkerFetch: a GetSingleCrypto call whose worker has left at
\* the deadline is cancelled with the context and takes no further step.
WorkerFetchStopsAtDeadline ==
    \E i \in Tasks :
        /\ ~(ctxDone /\ wpc[i] = "exit")
        /\ FetchStep(i)
        /\ UNCHANGED <<bulkVars, handlerVars, streamVars, tickVars, hubVars, lockVars>>

\* Steps of the GetSingleCrypto invocations made by workers.
WorkerFetch == \E i \in Tasks : FetchStep(i) /\ UNCHANGED <<bulkVars, handlerVars, streamVars, tickVars, hubVars, lockVars>>

\* Stub sources of the bulk runs: a coin is answered, fails or hangs.
BulkSourceModes == {"ok", "neterr", "hang"}

\* The stub source is fixed for the run of a bulk operation.
InitBulk ==
    /\ InitService
    /\ source \in [Symbols -> BulkSourceModes]

NextBulk ==
    \/ \E cs \in BulkInputs(source) : CallBulk(cs)
    \/ \E i \in Tasks : BulkWorkerStart(i)
    \/ WorkerFetch
    \/ \E i \in Tasks : BulkSelectDone(i)
    \/ \E i \in Tasks : BulkSelectTimeout(i)
    \/ Deadline
    \/ CloseResults
    \/ Collect
    \/ Return

\* GetBulkCrypto over the coin lists of BulkInputs and every stub source.
SpecBulk == InitBulk /\ [][NextBulk]_vars

\* Stub sources of the gated runs: every upstream call terminates.
GateSourceModes == {"ok", "neterr"}

InitGate ==
    /\ InitService
    /\ source \in [Symbols -> GateSourceModes]

NextGate ==
    \/ \E cs \in GateInputs(source) : CallPortfolio(cs)
    \/ \E i \in Tasks : PortfolioAcquire(i)
    \/ WorkerFetch
    \/ \E i \in Tasks : PortfolioFinish(i)
    \/ CloseResults
    \/ Collect
    \/ Return

\* GetPortfolioRealtime over the coin lists of GateInputs.
SpecGate == InitGate /\ [][NextGate]_vars

\* Stub sources of the cache runs: an upstream that answers every call,
\* with each of its three kinds of failure.
CacheSourceModes == {"ok", "neterr", "status", "empty"}

InitCache ==
    /\ InitService
    /\ source = [c \in Symbols |-> "ok"]

NextCache ==
    \/ \E i \in Callers, c \in Symbols : CallSingle(i, c)
    \/ CallerFetch
    \/ \E i \in Callers : SingleReturn(i)
    \/ ClearCache
    \/ GetCacheStats
    \/ \E d \in ClockSteps : Tick(d)
    \/ \E m \in CacheSourceModes : SourceChange(m)

\* Concurrent GetSingleCrypto calls, ClearCache and GetCacheStats while
\* the clock advances and the upstream changes its behaviour.
SpecCache == InitCache /\ [][NextCache]_vars

\* The hub after earlier broadcasts: two clients are subscribed and each
\* channel holds a backlog its consumer has not received yet (the ids are
\* interchangeable, so the backlogs are taken in descending order).
InitHub ==
    /\ InitRequests
    /\ InitBroadcasters
    /\ InitNoStream
    /\ InitNoTicker
    /\ InitNoLocks
    /\ source = [c \in Symbols |-> "ok"]
    /\ subscribers = [id \in {"c1", "c2"} |-> IF id = "c1" THEN 1 ELSE 2]
    /\ \E n1, n2 \in Backlogs :
          /\ n1 >= n2
          /\ chans = <<ChanWithBacklog(n1), ChanWithBacklog(n2)>>

NextHub ==
    \/ \E id \in SubIDs : AddSubscriber(id)
    \/ \E id \in SubIDs : RemoveSubscriber(id)
    \/ \E b \in Broadcasters :
          /\ \A a \in Broadcasters : a < b => bpc[a] # "idle"
          /\ BroadcastStart(b)
    \/ \E b \in Broadcasters, id \in SubIDs : BroadcastVisit(b, id)
    \/ \E b \in Broadcasters : BroadcastTimeout(b)
    \/ \E b \in Broadcasters : BroadcastReturn(b)
    \/ \E ch \in 1..MaxChans : ch <= Len(chans) /\ Consume(ch)

\* Concurrent broadcasts, subscribes, unsubscribes and consumers.
SpecHub == InitHub /\ [][NextHub]_vars

\* The steps a BroadcastToSubscribers call takes by itself: the loop, the
\* timer and the return. (Clients subscribe, unsubscribe and consume as
\* they please.)
BroadcastProgress ==
    \E b \in Broadcasters :
        \/ \E id \in SubIDs : BroadcastVisit(b, id)
        \/ BroadcastTimeout(b)
        \/ BroadcastReturn(b)

\* The hub with its broadcasting goroutines scheduled and timers firing.
FairHub == SpecHub /\ WF_vars(BroadcastProgress)

\* Stub sources of the stream runs: every call is answered within the
\* client's 10 s timeout, with data or with a failure.
StreamSourceModes == {"ok", "neterr"}

InitStream ==
    /\ InitService
    /\ source \in [Symbols -> StreamSourceModes]

NextStream ==
    \/ \E config \in StreamInputs : CallStream(config)
    \/ StreamTick
    \/ StreamCancelSeen
    \/ StreamWorkerFetch
    \/ \E i \in Tasks : StreamWorkerFinish(i)
    \/ StreamCloseUpdates
    \/ StreamEmit
    \/ StreamTickEnd
    \/ StreamConsume
    \/ StreamHandlerEnd
    \/ ClientDisconnect

\* One StreamPrices request: producer goroutine, the fetch goroutines of
\* its ticks, the handler's drain loop and the client.
SpecStream == InitStream /\ [][NextStream]_vars

\* The steps the stream's goroutines and the handler take by themselves
\* (everything but the ticker and the client).
StreamProgress ==
    \/ StreamCancelSeen
    \/ StreamWorkerFetch
    \/ \E i \in Tasks : StreamWorkerFinish(i)
    \/ StreamCloseUpdates
    \/ StreamEmit
    \/ StreamTickEnd
    \/ StreamConsume
    \/ StreamHandlerEnd

\* The stream with its goroutines scheduled and its ticker firing.
FairStream == SpecStream /\ WF_vars(StreamProgress) /\ WF_vars(StreamTick)

\* Both bulk operations, for the claims about every report.
\* The service when StartPriceStreaming is started: the source answers or
\* fails per coin; no client is connected, or c1 and c2 are, c2 with a full
\* queue that its consumer does not read (c1's is empty).
TickerSourceModes == {"ok", "neterr"}

\* None of the round goroutines' BroadcastToSubscribers calls has started.
InitRoundCalls ==
    /\ subReaders = 0
    /\ bpc = [b \in RoundCalls |-> "idle"]
    /\ btodo = [b \in RoundCalls |-> {}]
    /\ bcur = [b \in RoundCalls |-> ""]
    /\ bsnap = [b \in RoundCalls |-> {}]
    /\ waited = [b \in RoundCalls |-> 0]
    /\ bsent = [b \in RoundCalls |-> <<>>]
    /\ bdropped = [b \in RoundCalls |-> {}]
    /\ bfull = [b \in RoundCalls |-> {}]
    /\ consumed = 0
    /\ panicked = FALSE

InitTicker ==
    /\ InitRequests
    /\ InitRoundCalls
    /\ InitNoStream
    /\ InitNoTicker
    /\ InitNoLocks
    /\ source \in [Symbols -> TickerSourceModes]
    /\ \/ subscribers = <<>> /\ chans = <<>>
       \/ /\ subscribers = [id \in {"c1", "c2"} |-> IF id = "c1" THEN 1 ELSE 2]
          /\ chans = <<MakeChan, ChanWithBacklog(QueueCap)>>

NextTicker ==
    \/ \E cs \in TickerInputs : StartPriceStreaming(cs)
    \/ TickerTick
    \/ TickerCancel
    \/ TickerCancelSeen
    \/ RoundWorkerFetch
    \/ \E w \in RoundWorkers : RoundWorkerFetched(w)
    \/ \E w \in RoundWorkers : RoundBroadcastStart(w)
    \/ \E b \in RoundCalls, id \in SubIDs : BroadcastVisit(b, id)
    \/ \E b \in RoundCalls : BroadcastTimeout(b)
    \/ \E b \in RoundCalls : BroadcastReturn(b)
    \/ \E w \in RoundWorkers : RoundWorkerDone(w)
    \/ \E id \in SubIDs : ClientConnect(id)
    \/ \E id \in SubIDs : ClientLeave(id)

\* Broadcast mode: the scheduler, its rounds, and clients that subscribe,
\* unsubscribe and consume.
SpecTicker == InitTicker /\ [][NextTicker]_vars

NextReports == NextBulk \/ NextGate

SpecReports == InitBulk /\ [][NextReports]_vars

\* Either bulk operation under a fair scheduler: a step that is possible is
\* taken.
FairReports == SpecReports /\ WF_vars(NextReports)

\* The Go scheduler keeps running runnable goroutines, the deadline timer
\* fires, and an upstream call that is not hanging is answered (the resty
\* client has its own 10 s timeout): while some step is possible, a step
\* is taken. No step of a bulk operation can be repeated, so this weak
\* fairness of the whole next-state relation already forces every enabled
\* goroutine to run.
FairBulk == SpecBulk /\ WF_vars(NextBulk)

\* GetPortfolioRealtime under a fair scheduler and a terminating upstream.
FairGate == SpecGate /\ WF_vars(NextGate)

\* ------------------------------------------------------------------ claims

\* Number of GetSingleCrypto invocations in flight.
NumInFlight == Cardinality(InFlight)

SlotHolders == {i \in Tasks : wpc[i] = "fetch"}

\* C2: during any GetPortfolioRealtime call at most 5 GetSingleCrypto calls
\* started by it are in flight, and a task is inside GetSingleCrypto only
\* while it holds one of the 5 semaphore slots.
C2_PortfolioAtMostFive ==
    op = "portfolio" =>
        /\ NumInFlight <= SemCap
        /\ InFlight \subseteq SlotHolders
        /\ Cardinality(SlotHolders) = sem
        /\ sem <= SemCap

\* Five invocations in flight while a sixth task waits at the gate.
C2_Witness ==
    /\ op = "portfolio"
    /\ NumInFlight = SemCap
    /\ \E i \in Tasks : wpc[i] = "start"
    /\ \E i, j \in InFlight : source[fcoin[i]] = "ok" /\ source[fcoin[j]] = "neterr"

\* C3 (as stated): a worker whose fetch had not completed when the
\* deadline expired sends the failure record with error "timeout".
C3_PendingAtDeadlineIsTimeout ==
    [][\A i \in Tasks :
          (op = "bulk" /\ i \in pendingAtDeadline /\ wpc[i] = "select" /\ wpc'[i] = "exit")
              => results' = Append(results, ErrorRecord(coins[i], TimeoutError, now))]_vars

\* C3 (the part that holds): once the deadline has expired the call
\* returns, whatever the upstream does, and a fetch still unfinished when
\* its worker leaves the select is reported as "timeout".
C3_ReturnsAfterDeadline ==
    /\ (op = "bulk" /\ ctxDone) ~> (cpc = "returned")
    /\ [][\A i \in Tasks :
            (op = "bulk" /\ wpc[i] = "select" /\ wpc'[i] = "exit" /\ fpc[i] # "ret")
                => results' = Append(results, ErrorRecord(coins[i], TimeoutError, now))]_vars

\* C4: every slot a GetPortfolioRealtime task acquired is released when the
\* task completes, after a success as after an error: the call returns
\* with zero slots held, every one of the N tasks has passed the gate and
\* contributed its record, and the call does return (no task is starved or
\* deadlocked on the gate).
C4_SlotsReleased ==
    /\ [](op = "portfolio" /\ cpc = "returned" =>
              /\ sem = 0
              /\ Len(portfolio) = Len(coins)
              /\ \A i \in 1..Len(coins) : wpc[i] = "exit")
    /\ (op = "portfolio") ~> (cpc = "returned")

\* A returned call over more coins than slots, in which fetches succeeded
\* and fetches failed.
C4_Witness ==
    /\ op = "portfolio"
    /\ cpc = "returned"
    /\ Len(coins) > SemCap
    /\ successCount > 0
    /\ errorCount > 0

\* Sum of Price over the records of seq whose Error is empty.
RECURSIVE SumOfSuccessPrices(_)
SumOfSuccessPrices(seq) ==
    IF seq = <<>> THEN 0
    ELSE (IF Head(seq).Error = NoError THEN Head(seq).Price ELSE 0)
             + SumOfSuccessPrices(Tail(seq))

\* Positions of seq holding a record without / with an error.
SuccessRecords(seq) == {k \in 1..Len(seq) : seq[k].Error = NoError}
FailureRecords(seq) == {k \in 1..Len(seq) : seq[k].Error # NoError}

\* C5: in every report of GetBulkCrypto and GetPortfolioRealtime,
\* totalValue is the sum of Price over exactly the records with an empty
\* Error, successCount the number of those records and errorCount the
\* number of the others; bitcoin = 50000 and ethereum = 3000 both fetched
\* give successCount 2, errorCount 0, totalValue 53000.
C5_TotalsMatchRecords ==
    cpc = "returned" =>
        /\ totalValue = SumOfSuccessPrices(portfolio)
        /\ successCount = Cardinality(SuccessRecords(portfolio))
        /\ errorCount = Cardinality(FailureRecords(portfolio))
        /\ (coins = <<"bitcoin", "ethereum">> /\ FailureRecords(portfolio) = {}
              => successCount = 2 /\ errorCount = 0 /\ totalValue = 53000)

\* A returned report that mixes fetched records and failure records.
C5_Witness ==
    /\ cpc = "returned"
    /\ successCount >= 1
    /\ errorCount >= 1
    /\ totalValue >= 3000

\* Number of positions of seq that hold the value v.
Occurrences(seq, v) == Cardinality({k \in 1..Len(seq) : seq[k] = v})

\* The coin ids of a sequence of records.
RecordIDs(seq) == [k \in 1..Len(seq) |-> seq[k].ID]

\* C6: a bulk call over N coins returns a report with exactly one record
\* per occurrence of a coin in the input, so successCount + errorCount = N;
\* a coin whose upstream call fails appears as a failure record carrying
\* the failure's message, and with an upstream that fails every call (and
\* no deadline expiry) successCount = 0, errorCount = N and every error
\* starts with "API call failed".
C6_OneRecordPerCoin ==
    cpc = "returned" =>
        /\ Len(portfolio) = Len(coins)
        /\ successCount + errorCount = Len(coins)
        /\ \A c \in Symbols \cup {""} :
              Occurrences(RecordIDs(portfolio), c) = Occurrences(coins, c)
        /\ \A k \in 1..Len(portfolio) :
              source[portfolio[k].ID] = "neterr"
                  => portfolio[k].Error \in
                        {Errorf("API call failed: ", "connection refused"), TimeoutError}
        /\ ((\A c \in Symbols : source[c] = "neterr") /\ ~ctxDone
              => /\ successCount = 0
                 /\ errorCount = Len(coins)
                 /\ \A k \in 1..Len(portfolio) :
                       Head(portfolio[k].Error) = "API call failed: ")

\* A returned report over an upstream that fails every call.
C6_Witness ==
    /\ cpc = "returned"
    /\ Len(coins) >= 2
    /\ \A c \in Symbols : source[c] = "neterr"
    /\ errorCount = Len(coins)
    /\ \A k \in 1..Len(portfolio) : Head(portfolio[k].Error) = "API call failed: "


\* ------------------------------------------------------------ cache claims

\* An entry for coin c is in the map and younger than one minute.
HasFreshEntry(c) == c \in DOMAIN cache /\ now - cache[c].FetchedAt < CacheTTL

\* C7: a GetSingleCrypto call that reads the cache while the coin has an entry
\* younger than 60 s returns exactly that entry, without error, and makes no
\* call to the price source: its read goes straight to the return and no
\* call counter moves.
C7_FreshHitNoSourceCall ==
    [][\A i \in Tasks :
         (fpc[i] = "read" /\ fpc'[i] # "read" /\ HasFreshEntry(fcoin[i]))
             => /\ fpc'[i] = "ret"
                /\ fres'[i] = [crypto |-> cache[fcoin[i]], err |-> NoError]
                /\ apiCalls' = apiCalls
                /\ cache' = cache]_vars

\* Two calls were made for bitcoin, the source was called once, and the
\* call now returning holds the entry fetched 59 s ago.
C7_Witness ==
    \E i \in Callers :
        /\ fpc[i] = "ret"
        /\ fcoin[i] = "bitcoin"
        /\ callsMade = 2
        /\ apiCalls = [c \in Symbols |-> IF c = "bitcoin" THEN 1 ELSE 0]
        /\ HasFreshEntry("bitcoin")
        /\ fres[i] = [crypto |-> cache["bitcoin"], err |-> NoError]
        /\ now - cache["bitcoin"].FetchedAt = CacheTTL - 1
        /\ \A j \in Callers \ {i} : fpc[j] = "none"

\* The three failures of the upstream call.
FailureModes == {"neterr", "status", "empty"}

\* C8: a GetSingleCrypto call whose upstream call fails (network failure,
\* non-200 status, coin absent from the response) returns an error and no
\* data and leaves the cache as it was; a later call for a coin that has
\* failed, made while the coin has no fresh entry, calls the source again.
C8_FailureNotCached ==
    [][\A i \in Tasks :
         /\ (fpc[i] = "api" /\ fpc'[i] # "api" /\ source[fcoin[i]] \in FailureModes)
                => /\ fpc'[i] = "ret"
                   /\ fres'[i].err # NoError
                   /\ fres'[i].crypto = NilCrypto
                   /\ cache' = cache
         /\ (fpc[i] = "read" /\ fpc'[i] # "read" /\ fcoin[i] \in failedOnce
                /\ ~HasFreshEntry(fcoin[i]))
                => fpc'[i] = "api"
         /\ (fpc[i] = "api" /\ fpc'[i] # "api")
                => apiCalls'[fcoin[i]] = apiCalls[fcoin[i]] + 1]_vars

\* A first call for ethereum failed and returned, nothing was cached, and
\* the second call has called the source again.
C8_Witness ==
    \E i \in Callers :
        /\ fpc[i] = "ret"
        /\ fcoin[i] = "ethereum"
        /\ "ethereum" \in failedOnce
        /\ callsMade = 2
        /\ apiCalls["ethereum"] = 2
        /\ cache = <<>>
        /\ \A j \in Callers \ {i} : fpc[j] = "none"

\* C9: an entry is served only while now - FetchedAt < 60 s: a read that
\* finds an entry aged 60 s or more goes to the source, and a read returns
\* from the cache only with a younger entry. An entry leaves the map or
\* changes only by a successful refetch of its coin or by ClearCache (the
\* passage of time evicts nothing), and GetCacheStats counts every key of
\* the map, stale ones included.
C9_StaleIsMissButStays ==
    [][/\ \A i \in Tasks :
            (fpc[i] = "read" /\ fpc'[i] # "read")
                => /\ (fcoin[i] \in DOMAIN cache
                         /\ now - cache[fcoin[i]].FetchedAt >= CacheTTL)
                      => fpc'[i] = "api"
                   /\ fpc'[i] = "ret"
                      => (fcoin[i] \in DOMAIN cache
                            /\ now - cache[fcoin[i]].FetchedAt < CacheTTL)
       /\ \A c \in DOMAIN cache :
            \/ c \in DOMAIN cache' /\ cache'[c] = cache[c]
            \/ cache' = <<>>
            \/ \E i \in Tasks :
                 /\ fpc[i] = "write" /\ fcoin[i] = c /\ fres[i].err = NoError
                 /\ c \in DOMAIN cache' /\ cache'[c] = fres[i].crypto
       /\ now' # now => cache' = cache
       /\ stats' # stats
            => stats' = [cached_coins |-> Cardinality(DOMAIN cache),
                         cache_keys |-> DOMAIN cache]]_vars

\* The bitcoin entry is exactly 60 s old and still in the map, the
\* statistics list it, and the call that read it has
\* gone to the source.
C9_Witness ==
    \E i \in Callers :
        /\ fpc[i] = "api"
        /\ fcoin[i] = "bitcoin"
        /\ "bitcoin" \in DOMAIN cache
        /\ cache["bitcoin"].FetchedAt = CacheTTL - 1
        /\ now = 2 * CacheTTL - 1
        /\ stats = [cached_coins |-> 1, cache_keys |-> {"bitcoin"}]
        /\ apiCalls["bitcoin"] = 1


\* -------------------------------------------------------------- hub claims

\* Event e is in the buffer of channel ch.
InQueue(ch, e) == \E k \in 1..Len(chans[ch].buf) : chans[ch].buf[k] = e

\* C10: when a broadcast finds exactly one subscriber's channel full and
\* that subscriber's consumer makes no room, the event is dropped for that
\* subscriber only; every other subscriber registered at the call's start
\* has the event appended to its channel, and the call has waited at most
\* 100 ms (one timeout) before any of those sends.
C10_OnlySaturatedDropped ==
    \A b \in Broadcasters : \A s \in SubIDs :
        (bfull[b] = {s} /\ s \in bdropped[b])
            => /\ bdropped[b] = {s}
               /\ s \notin DOMAIN bsent[b]
               /\ \A t \in DOMAIN bsent[b] :
                     /\ t \in bsnap[b] \ {s}
                     /\ bsent[b][t] <= 100
                     /\ (bpc[b] # "done" /\ consumed = 0)
                            => InQueue(subscribers[t], b)
               /\ bpc[b] = "done" => DOMAIN bsent[b] = bsnap[b] \ {s}

\* A broadcast to three subscribers has returned: it found exactly one
\* channel full and dropped the event there after the timeout, one
\* subscriber was served before that wait and one after it.
C10_Witness ==
    \E b \in Broadcasters : \E s, t, u \in SubIDs :
        /\ bpc[b] = "done"
        /\ bsnap[b] = SubIDs
        /\ bfull[b] = {s}
        /\ bdropped[b] = {s}
        /\ t # u
        /\ DOMAIN bsent[b] = {t, u}
        /\ bsent[b][t] = 0
        /\ bsent[b][u] = SendTimeout
        /\ consumed = 0
        /\ InQueue(subscribers[t], b)
        /\ InQueue(subscribers[u], b)
        /\ Len(chans[subscribers[s]].buf) = QueueCap
        /\ ~InQueue(subscribers[s], b)


\* C11: a slow consumer never blocks the hub. Whatever subscribers are
\* saturated and however little their consumers drain, the hub always
\* comes back to a state in which every broadcast call that has started
\* has returned and the read lock is free, so that a waiting subscribe or
\* unsubscribe can take the registry; a call spends at most one timeout
\* per full channel, and on return every subscriber registered at its
\* start whose channel it did not find full has received the event.
C11_SlowConsumerNeverBlocks ==
    /\ []<>(/\ \A b \in Broadcasters : bpc[b] \in {"idle", "done"}
            /\ subReaders = 0)
    /\ [](\A b \in Broadcasters :
            /\ waited[b] <= SendTimeout * Cardinality(bfull[b])
            /\ bpc[b] = "done"
                 => /\ bsnap[b] \ bfull[b] \subseteq DOMAIN bsent[b]
                    /\ DOMAIN bsent[b] \cup bdropped[b] = bsnap[b])

\* A broadcast to three subscribers found two of them saturated, their
\* consumers not draining, dropped the event for both, delivered it to the
\* third and returned; the registry lock is free.
C11_Witness ==
    \E b \in Broadcasters :
        /\ bpc[b] = "done"
        /\ bsnap[b] = SubIDs
        /\ Cardinality(bdropped[b]) = 2
        /\ Cardinality(DOMAIN bsent[b]) = 1
        /\ waited[b] = 2 * SendTimeout
        /\ consumed = 0
        /\ subReaders = 0


\* Number of times event e is in the buffer of channel ch.
TimesQueued(ch, e) ==
    Cardinality({k \in 1..Len(chans[ch].buf) : chans[ch].buf[k] = e})

\* Channels the registry held for the subscribers of snapshot ids.
ChansOf(ids) == {subscribers[id] : id \in ids \cap DOMAIN subscribers}

\* C12: a broadcast that finds none of the registered channels full has,
\* when its loop ends, appended its event exactly once to the channel of
\* each subscriber registered at its start and to no other channel.
C12_ExactlyOncePerSubscriber ==
    \A b \in Broadcasters :
        (bpc[b] = "range" /\ btodo[b] = {} /\ bfull[b] = {} /\ consumed = 0)
            => \A ch \in 1..Len(chans) :
                  TimesQueued(ch, b) = IF ch \in ChansOf(bsnap[b]) THEN 1 ELSE 0

\* Three subscribers with room were registered and the broadcast has
\* returned: each of their three channels holds the event once.
C12_Witness ==
    \E b \in Broadcasters :
        /\ bpc[b] = "done"
        /\ bsnap[b] = SubIDs
        /\ DOMAIN subscribers = SubIDs
        /\ bfull[b] = {}
        /\ consumed = 0
        /\ Len(chans) = 3
        /\ \A id \in SubIDs : TimesQueued(subscribers[id], b) = 1


\* C13: once RemoveSubscriber(id) has closed and removed a channel, that
\* channel is in the registry no more and no broadcast appends to it (its
\* buffer can only shrink, and no send hits a closed channel); and every
\* AddSubscriber, also one for an id used before, registers a channel made
\* in that call, empty and open, never the removed one.
C13_RemovedQueueGetsNothing ==
    /\ [](\A id \in DOMAIN subscribers : ~chans[subscribers[id]].closed)
    /\ [][/\ ~panicked'
          /\ \A ch \in 1..Len(chans) :
                chans[ch].closed
                    => /\ chans'[ch].closed
                       /\ Len(chans'[ch].buf) <= Len(chans[ch].buf)
          /\ \A id \in DOMAIN subscribers' :
                (id \notin DOMAIN subscribers \/ subscribers'[id] # subscribers[id])
                    => /\ subscribers'[id] = Len(chans) + 1
                       /\ Len(chans') = Len(chans) + 1
                       /\ chans'[subscribers'[id]] = [buf |-> <<>>, closed |-> FALSE]]_vars

\* c1 unsubscribed with 99 events queued and subscribed again; a later
\* broadcast has returned: the removed channel is closed and still holds
\* only its 99 old events, the new channel holds just the new event.
C13_Witness ==
    \E b \in Broadcasters :
        /\ bpc[b] = "done"
        /\ "c1" \in DOMAIN bsent[b]
        /\ Len(chans) = 3
        /\ chans[1].closed
        /\ Len(chans[1].buf) = QueueCap - 1
        /\ ~InQueue(1, b)
        /\ "c1" \in DOMAIN subscribers
        /\ subscribers["c1"] = 3
        /\ chans[3] = [buf |-> <<b>>, closed |-> FALSE]


\* The open/closed flag of every channel made so far.
ClosedFlags == [ch \in 1..Len(chans) |-> chans[ch].closed]

\* C14: RemoveSubscriber(id) on a registered id closes that subscriber's
\* channel and deletes the id; on an id without entry it changes nothing
\* and closes nothing. Stated on the steps: a channel is closed only in a
\* step that deletes the id registered for it, leaving every other entry
\* and every buffer as they were; an id leaves the registry only in a
\* step that closes its channel; and no close ever hits a closed (or nil)
\* channel, which would panic.
C14_RemoveClosesOnce ==
    [][/\ ~panicked'
       /\ \A ch \in 1..Len(chans) :
             (~chans[ch].closed /\ chans'[ch].closed)
                 => \E id \in DOMAIN subscribers :
                        /\ subscribers[id] = ch
                        /\ subscribers' = MapDelete(subscribers, id)
                        /\ chans' = [chans EXCEPT ![ch].closed = TRUE]
       /\ \A id \in DOMAIN subscribers :
             id \notin DOMAIN subscribers'
                 => /\ ~chans[subscribers[id]].closed
                    /\ chans'[subscribers[id]].closed
                    /\ subscribers' = MapDelete(subscribers, id)
       /\ (DOMAIN subscribers' = DOMAIN subscribers /\ Len(chans') = Len(chans))
             => (subscribers' = subscribers /\ ClosedFlags' = ClosedFlags)]_vars

\* c1 and c2 have both unsubscribed: their channels are closed with their
\* backlog intact, the registry is empty, and nothing has panicked.
C14_Witness ==
    /\ subscribers = <<>>
    /\ Len(chans) = 2
    /\ chans[1].closed /\ chans[2].closed
    /\ Len(chans[1].buf) >= QueueCap - 1
    /\ Len(chans[2].buf) >= QueueCap - 1
    /\ ~panicked


\* ----------------------------------------------------------- stream claims

\* C15: a stream with MaxUpdates = m > 0 runs at most m ticks: when the
\* m-th tick is over the goroutine has returned and the event channel is
\* closed, it has sent at most m * |coins| events, and once the channel is
\* closed no event is sent and no fetch is made any more. With
\* MaxUpdates = 0 the goroutine returns only on a cancelled context.
C15_MaxUpdatesBoundsTicks ==
    /\ [](/\ sconf.MaxUpdates > 0
              => /\ updateCount <= sconf.MaxUpdates
                 /\ emitted <= sconf.MaxUpdates * Len(sconf.Coins)
                 /\ updateCount = sconf.MaxUpdates
                       => (spc = "done" /\ eventChan.closed)
          /\ (sconf.MaxUpdates = 0 /\ spc = "done") => sctx
          /\ eventChan.closed <=> spc = "done")
    /\ [][eventChan.closed
             => /\ eventChan'.closed
                /\ emitted' = emitted
                /\ apiCalls' = apiCalls
                /\ cache' = cache
                /\ Len(eventChan'.buf) <= Len(eventChan.buf)
                /\ spc' = "done"]_vars

\* A stream over two coins with MaxUpdates = 2 has run its second tick,
\* sent four events and closed the channel without any cancellation.
C15_Witness ==
    /\ sconf.MaxUpdates = 2
    /\ Len(sconf.Coins) = 2
    /\ updateCount = 2
    /\ emitted = 4
    /\ spc = "done"
    /\ eventChan.closed
    /\ ~sctx


\* C16: once the stream's context is cancelled the stream stops: the
\* producer goroutine returns, the event channel is closed and the
\* handler's range loop ends. The channel gets closed if MaxUpdates > 0,
\* and it is closed only if the context was cancelled or MaxUpdates > 0
\* ticks have run. (A cancelled context stays cancelled and a closed
\* channel stays closed, so "again and again" states "eventually".)
C16_CancelStopsStream ==
    /\ []<>(/\ sctx => (spc = "done" /\ eventChan.closed /\ hpc = "returned")
            /\ (spc # "none" /\ sconf.MaxUpdates > 0) => eventChan.closed)
    /\ [](eventChan.closed
            => \/ sctx
               \/ sconf.MaxUpdates > 0 /\ updateCount >= sconf.MaxUpdates)

\* An unbounded stream (MaxUpdates = 0) was cancelled after its first
\* tick: the producer has returned, the channel is closed, the handler's
\* loop is over.
C16_Witness ==
    /\ sconf.MaxUpdates = 0
    /\ updateCount = 1
    /\ emitted >= 1
    /\ sctx
    /\ spc = "done"
    /\ eventChan.closed
    /\ hpc = "returned"


\* A tick of the stream is over and it dropped nothing.
TickOverNoDrop == spc \in {"select", "done"} /\ updateCount >= 1 /\ tickDropped = 0

\* C17 as stated: a tick over N coins that dropped nothing has emitted N
\* events, one for each requested coin.
C17_OneEventPerSymbol ==
    TickOverNoDrop => tickEmitted = Len(sconf.Coins)

\* Positions of the request's coin list whose coin the source answers.
AnsweredPositions == {k \in 1..Len(sconf.Coins) : source[sconf.Coins[k]] = "ok"}

\* C17 as amended: a tick that dropped nothing has emitted one event for
\* each requested coin whose fetch succeeded and none for a coin whose
\* fetch failed; every event on the channel is a price update for one of
\* the answered coins.
C17_OneEventPerFetchedSymbol ==
    /\ TickOverNoDrop => tickEmitted = Cardinality(AnsweredPositions)
    /\ \A k \in 1..Len(eventChan.buf) :
          /\ eventChan.buf[k].Type = "price_update"
          /\ \E j \in AnsweredPositions : eventChan.buf[k].Data.CoinID = sconf.Coins[j]

\* A tick over bitcoin (answered) and ethereum (failing) is over: one
\* event was emitted, for bitcoin, and none was dropped.
C17_Witness ==
    /\ TickOverNoDrop
    /\ sconf.Coins = <<"bitcoin", "ethereum">>
    /\ source["bitcoin"] = "ok"
    /\ source["ethereum"] = "neterr"
    /\ updateCount = 1
    /\ tickEmitted = 1
    /\ eventChan.buf = <<StreamEvent([CoinID |-> "bitcoin", UpdateType |-> "price"])>>


\* C18: a tick that finds no subscriber registered starts no round, calls
\* the source for nothing, writes nothing to the cache and broadcasts
\* nothing; every round was started by a tick that found a subscriber,
\* and the source is called and the cache written only by the goroutines
\* of such a round.
C18_NoSubscriberNoFetch ==
    /\ [][(ticks' = ticks + 1 /\ DOMAIN subscribers = {})
             => /\ apiCalls' = apiCalls
                /\ cache' = cache
                /\ chans' = chans
                /\ rounds' = rounds
                /\ rpc' = rpc
                /\ fpc' = fpc
                /\ bpc' = bpc]_vars
    /\ [][(\/ apiCalls' # apiCalls
            \/ cache' # cache
            \/ \E ch \in 1..Len(chans) : chans'[ch].buf # chans[ch].buf)
             => \E w \in RoundWorkers :
                   /\ rpc[w] \in {"fetch", "call"}
                   /\ RoundOf(w) <= rounds
                   /\ rseen[RoundOf(w)] # {}]_vars
    /\ [](/\ \A r \in 1..rounds : rseen[r] # {}
          /\ rounds <= ticks
          /\ rounds = 0 => (cache = <<>> /\ \A c \in Symbols : apiCalls[c] = 0))

\* The first tick found no subscriber and was skipped; after a client
\* connected the second tick started a round, which has called the source.
C18_Witness ==
    /\ ticks = 2
    /\ rounds = 1
    /\ rseen[1] = {"c1"}
    /\ Len(chans) = 1
    /\ apiCalls["bitcoin"] = 1

\* Round r is over: each of its goroutines has returned.
RoundOver(r) == \A w \in WorkersOf(r) : rpc[w] = "done"

\* The goroutines of round r whose coin the source answers.
AnsweredWorkers(r) == {w \in WorkersOf(r) : source[CoinOf(w)] = "ok"}

\* No client has disconnected.
NoneLeft == \A ch \in 1..Len(chans) : ~chans[ch].closed

\* The goroutines of round r whose broadcast delivered to subscriber id.
DeliveredTo(id, r) == {w \in WorkersOf(r) : id \in DOMAIN bsent[CallOf(w)]}

\* A broadcast of round r found the channel of subscriber id full.
Saturated(id, r) == \E w \in WorkersOf(r) : id \in bfull[CallOf(w)]

\* Positions of the channel ch holding an event of round r.
QueuedOfRound(ch, r) ==
    {k \in 1..Len(chans[ch].buf) : \E w \in WorkersOf(r) : chans[ch].buf[k] = CallOf(w)}

\* C19: when a round over k answered coins is over, each subscriber that
\* was registered at its tick and whose channel no broadcast of the round
\* found full (no client having disconnected) has been delivered exactly
\* k events by the round, one per answered coin, each a price update
\* carrying that coin's id, and its queue holds exactly these k events of
\* the round. With coins = <<"bitcoin">>, c1 registered and the source
\* answering, c1's queue holds exactly one event after the only round, a
\* price update with CoinID "bitcoin".
C19_OneEventPerFetchedCoin ==
    /\ \A r \in 1..rounds :
          RoundOver(r)
             => \A id \in rseen[r] :
                   (NoneLeft /\ ~Saturated(id, r))
                      => /\ DeliveredTo(id, r) = AnsweredWorkers(r)
                         /\ Cardinality(QueuedOfRound(subscribers[id], r))
                               = Cardinality(AnsweredWorkers(r))
                         /\ \A w \in AnsweredWorkers(r) :
                               /\ TimesQueued(subscribers[id], CallOf(w)) = 1
                               /\ bevent[w] = StreamEvent([CoinID |-> CoinOf(w),
                                                            UpdateType |-> "price"])
    /\ (/\ tcoins = <<"bitcoin">>
        /\ source["bitcoin"] = "ok"
        /\ rounds = 1
        /\ RoundOver(1)
        /\ "c1" \in rseen[1]
        /\ NoneLeft)
          => /\ chans[subscribers["c1"]].buf = <<CallOf(1)>>
             /\ bevent[1].Type = "price_update"
             /\ bevent[1].Data.CoinID = "bitcoin"

\* A round over bitcoin and ethereum, both answered, is over: c1's queue
\* holds its two events, and c2, whose queue was full, got none.
C19_Witness ==
    /\ tcoins = <<"bitcoin", "ethereum">>
    /\ rounds = 1
    /\ RoundOver(1)
    /\ rseen[1] = {"c1", "c2"}
    /\ NoneLeft
    /\ AnsweredWorkers(1) = {1, 2}
    /\ DeliveredTo("c1", 1) = {1, 2}
    /\ Len(chans[subscribers["c1"]].buf) = 2
    /\ DeliveredTo("c2", 1) = {}
    /\ Saturated("c2", 1)

\* C20 as stated: once StartPriceStreaming has returned on its cancelled
\* context, none of the goroutines of the rounds it started is still
\* fetching or broadcasting.
C20_ReturnEndsRounds ==
    tpc = "done" => \A w \in RoundWorkers : rpc[w] \in {"none", "done"}


\* ------------------------------------------------ the two mutexes

\* No BroadcastToSubscribers call of the lock runs has started.
InitLockCalls ==
    /\ subReaders = 0
    /\ bpc = [b \in Lockers |-> "idle"]
    /\ btodo = [b \in Lockers |-> {}]
    /\ bcur = [b \in Lockers |-> ""]
    /\ bsnap = [b \in Lockers |-> {}]
    /\ waited = [b \in Lockers |-> 0]
    /\ bsent = [b \in Lockers |-> <<>>]
    /\ bdropped = [b \in Lockers |-> {}]
    /\ bfull = [b \in Lockers |-> {}]
    /\ consumed = 0
    /\ panicked = FALSE

\* The variables a step on a mutex or a call leaves alone.
outsideLocks == <<cache, now, source, apiCalls, failedOnce, fres, bulkVars,
                  handlerVars, hubVars, streamVars, tickVars>>

\* Goroutine t holds neither mutex.
HoldsNothing(t) == t \notin cacheMu.r /\ t \notin cacheMu.w /\ t \notin subMu.w

\* Goroutine t calls GetSingleCrypto(coinID).
LockerCallFetch(t, coinID) ==
    /\ lop[t] = "none"
    /\ lcount < MaxLockOps
    /\ lcount' = lcount + 1
    /\ lop' = [lop EXCEPT ![t] = "fetch"]
    /\ fpc' = [fpc EXCEPT ![t] = "read"]
    /\ fcoin' = [fcoin EXCEPT ![t] = coinID]
    /\ UNCHANGED <<cacheMu, subMu, larg, outsideLocks>>

\* Goroutine t calls ClearCache, GetCacheStats, AddSubscriber(id),
\* RemoveSubscriber(id) or BroadcastToSubscribers (once per goroutine).
LockerCall(t, method, id) ==
    /\ lop[t] = "none"
    /\ lcount < MaxLockOps
    /\ method = "broadcast" => bpc[t] = "idle"
    /\ lcount' = lcount + 1
    /\ lop' = [lop EXCEPT ![t] = method]
    /\ larg' = [larg EXCEPT ![t] = [id |-> id, mark |-> 0]]
    /\ UNCHANGED <<cacheMu, subMu, fpc, fcoin, outsideLocks>>

\* s.mu.RLock(): granted while no goroutine holds s.mu exclusively.
CacheRLock(t) ==
    /\ \/ lop[t] = "fetch" /\ fpc[t] = "read"
       \/ lop[t] = "stats"
    /\ t \notin cacheMu.r
    /\ cacheMu.w = {}
    /\ cacheMu' = [cacheMu EXCEPT !.r = @ \cup {t}]
    /\ UNCHANGED <<subMu, lop, larg, lcount, fpc, fcoin, outsideLocks>>

\* cached, exists := s.cache[coinID] and the freshness test, between
\* RLock and RUnlock.
LockedFetchRead(t) ==
    /\ lop[t] = "fetch"
    /\ t \in cacheMu.r
    /\ FetchRead(t)
    /\ UNCHANGED <<bulkVars, handlerVars, hubVars, streamVars, tickVars, lockVars>>

\* Mutant of CacheRUnlock: on a miss the shared lock is kept until the
\* upstream call has returned.
CacheRUnlockAfterCall(t) ==
    /\ lop[t] = "fetch"
    /\ t \in cacheMu.r
    /\ fpc[t] \notin {"read", "api"}
    /\ cacheMu' = [cacheMu EXCEPT !.r = @ \ {t}]
    /\ UNCHANGED <<subMu, lop, larg, lcount, fpc, fcoin, outsideLocks>>

\* s.mu.RUnlock() on either branch of the lookup.
CacheRUnlock(t) ==
    /\ lop[t] = "fetch"
    /\ t \in cacheMu.r
    /\ fpc[t] # "read"
    /\ cacheMu' = [cacheMu EXCEPT !.r = @ \ {t}]
    /\ UNCHANGED <<subMu, lop, larg, lcount, fpc, fcoin, outsideLocks>>

\* The upstream call, made while holding no lock.
LockerFetchApi(t) ==
    /\ lop[t] = "fetch"
    /\ HoldsNothing(t)
    /\ FetchApi(t)
    /\ UNCHANGED <<bulkVars, handlerVars, hubVars, streamVars, tickVars, lockVars>>

\* Mutant of CacheLock: the exclusive lock is granted while readers hold
\* the mutex.
CacheLockIgnoresReaders(t) ==
    /\ \/ lop[t] = "fetch" /\ fpc[t] = "write"
       \/ lop[t] = "clear"
    /\ HoldsNothing(t)
    /\ cacheMu.w = {}
    /\ cacheMu' = [cacheMu EXCEPT !.w = {t}]
    /\ UNCHANGED <<subMu, lop, larg, lcount, fpc, fcoin, outsideLocks>>

\* s.mu.Lock(): granted while no goroutine holds s.mu in either mode.
CacheLock(t) ==
    /\ \/ lop[t] = "fetch" /\ fpc[t] = "write"
       \/ lop[t] = "clear"
    /\ HoldsNothing(t)
    /\ cacheMu.r = {}
    /\ cacheMu.w = {}
    /\ cacheMu' = [cacheMu EXCEPT !.w = {t}]
    /\ UNCHANGED <<subMu, lop, larg, lcount, fpc, fcoin, outsideLocks>>

\* s.cache[coinID] = crypto between Lock and Unlock.
LockedFetchWrite(t) ==
    /\ lop[t] = "fetch"
    /\ t \in cacheMu.w
    /\ FetchWrite(t)
    /\ UNCHANGED <<bulkVars, handlerVars, hubVars, streamVars, tickVars, lockVars>>

\* s.mu.Unlock() after the cache update of GetSingleCrypto.
CacheUnlock(t) ==
    /\ lop[t] = "fetch"
    /\ t \in cacheMu.w
    /\ fpc[t] = "ret"
    /\ cacheMu' = [cacheMu EXCEPT !.w = {}]
    /\ UNCHANGED <<subMu, lop, larg, lcount, fpc, fcoin, outsideLocks>>

\* GetSingleCrypto returns to goroutine t.
LockerFetchReturn(t) ==
    /\ lop[t] = "fetch"
    /\ fpc[t] = "ret"
    /\ HoldsNothing(t)
    /\ lop' = [lop EXCEPT ![t] = "none"]
    /\ fpc' = [fpc EXCEPT ![t] = "none"]
    /\ fcoin' = [fcoin EXCEPT ![t] = ""]
    /\ fres' = [fres EXCEPT ![t] = [crypto |-> NilCrypto, err |-> NoError]]
    /\ UNCHANGED <<cacheMu, subMu, larg, lcount, cache, now, source, apiCalls,
                   failedOnce, bulkVars, handlerVars, hubVars, streamVars, tickVars>>

\* s.cache = make(map[string]models.CryptoData) between Lock and the
\* deferred Unlock.
LockedClearCache(t) ==
    /\ lop[t] = "clear"
    /\ t \in cacheMu.w
    /\ ClearCache

\* The deferred s.mu.Unlock() of ClearCache, and its return.
ClearCacheUnlock(t) ==
    /\ lop[t] = "clear"
    /\ t \in cacheMu.w
    /\ cache = <<>>
    /\ cacheMu' = [cacheMu EXCEPT !.w = {}]
    /\ lop' = [lop EXCEPT ![t] = "none"]
    /\ UNCHANGED <<subMu, larg, lcount, fpc, fcoin, outsideLocks>>

\* The body of GetCacheStats between RLock and the deferred RUnlock.
LockedGetCacheStats(t) ==
    /\ lop[t] = "stats"
    /\ t \in cacheMu.r
    /\ GetCacheStats

\* The deferred s.mu.RUnlock() of GetCacheStats, and its return.
CacheStatsRUnlock(t) ==
    /\ lop[t] = "stats"
    /\ t \in cacheMu.r
    /\ stats = CacheStatsOf(cache)
    /\ cacheMu' = [cacheMu EXCEPT !.r = @ \ {t}]
    /\ lop' = [lop EXCEPT ![t] = "none"]
    /\ UNCHANGED <<subMu, larg, lcount, fpc, fcoin, outsideLocks>>

\* s.subMu.Lock() of AddSubscriber and RemoveSubscriber: granted while no
\* goroutine holds s.subMu in either mode. The goroutine notes how many
\* channels have been made.
SubLock(t) ==
    /\ lop[t] \in {"add", "remove"}
    /\ HoldsNothing(t)
    /\ lop[t] = "add" => Len(chans) < MaxChans
    /\ subMu.w = {}
    /\ subReaders = 0
    /\ subMu' = [subMu EXCEPT !.w = {t}]
    /\ larg' = [larg EXCEPT ![t].mark = Len(chans)]
    /\ UNCHANGED <<cacheMu, lop, lcount, fpc, fcoin, outsideLocks>>

\* The body of AddSubscriber between Lock and the deferred Unlock.
LockedAddSubscriber(t) ==
    /\ lop[t] = "add"
    /\ t \in subMu.w
    /\ Len(chans) = larg[t].mark
    /\ AddSubscriber(larg[t].id)

\* The body of RemoveSubscriber between Lock and the deferred Unlock.
LockedRemoveSubscriber(t) ==
    /\ lop[t] = "remove"
    /\ t \in subMu.w
    /\ larg[t].id \in DOMAIN subscribers
    /\ RemoveSubscriber(larg[t].id)

\* The deferred s.subMu.Unlock() of AddSubscriber and RemoveSubscriber,
\* and their return.
SubUnlock(t) ==
    /\ t \in subMu.w
    /\ \/ lop[t] = "add" /\ Len(chans) = larg[t].mark + 1
       \/ lop[t] = "remove" /\ (larg[t].id \notin DOMAIN subscribers \/ panicked)
    /\ subMu' = [subMu EXCEPT !.w = {}]
    /\ lop' = [lop EXCEPT ![t] = "none"]
    /\ UNCHANGED <<cacheMu, larg, lcount, fpc, fcoin, outsideLocks>>

\* s.subMu.RLock() of BroadcastToSubscribers: granted while no goroutine
\* holds s.subMu exclusively.
LockedBroadcastStart(t) ==
    /\ lop[t] = "broadcast"
    /\ subMu.w = {}
    /\ BroadcastStart(t)

\* BroadcastToSubscribers returns to goroutine t.
LockerBroadcastReturn(t) ==
    /\ lop[t] = "broadcast"
    /\ bpc[t] = "done"
    /\ lop' = [lop EXCEPT ![t] = "none"]
    /\ UNCHANGED <<cacheMu, subMu, larg, lcount, fpc, fcoin, outsideLocks>>

\* The methods the goroutines call besides GetSingleCrypto.
LockedMethods == {"clear", "stats", "add", "remove", "broadcast"}

\* Clients of the lock runs.
LockIDs == {"c1", "c2"}

\* Stub sources of the lock runs: an upstream that answers, and one whose
\* bitcoin request never returns.
LockSources ==
    {[c \in Symbols |-> "ok"],
     [c \in Symbols |-> IF c = "bitcoin" THEN "hang" ELSE "ok"]}

\* The service as constructed, or with one client whose channel is full.
InitLocks ==
    /\ InitRequests
    /\ InitLockCalls
    /\ InitNoStream
    /\ InitNoTicker
    /\ InitNoLocks
    /\ source \in LockSources
    /\ \/ /\ subscribers = <<>>
          /\ chans = <<>>
       \/ /\ subscribers = [id \in {"c1"} |-> 1]
          /\ chans = <<ChanWithBacklog(QueueCap)>>

NextLocks ==
    \/ \E t \in Lockers, c \in Symbols : LockerCallFetch(t, c)
    \/ \E t \in Lockers, m \in LockedMethods, id \in LockIDs :
          /\ m \notin {"add", "remove"} => id = "c1"
          /\ LockerCall(t, m, id)
    \/ \E t \in Lockers : CacheRLock(t)
    \/ \E t \in Lockers : LockedFetchRead(t)
    \/ \E t \in Lockers : CacheRUnlock(t)
    \/ \E t \in Lockers : LockerFetchApi(t)
    \/ \E t \in Lockers : CacheLock(t)
    \/ \E t \in Lockers : LockedFetchWrite(t)
    \/ \E t \in Lockers : CacheUnlock(t)
    \/ \E t \in Lockers : LockerFetchReturn(t)
    \/ \E t \in Lockers : LockedClearCache(t)
    \/ \E t \in Lockers : ClearCacheUnlock(t)
    \/ \E t \in Lockers : LockedGetCacheStats(t)
    \/ \E t \in Lockers : CacheStatsRUnlock(t)
    \/ \E t \in Lockers : SubLock(t)
    \/ \E t \in Lockers : LockedAddSubscriber(t)
    \/ \E t \in Lockers : LockedRemoveSubscriber(t)
    \/ \E t \in Lockers : SubUnlock(t)
    \/ \E t \in Lockers : LockedBroadcastStart(t)
    \/ \E t \in Lockers, id \in LockIDs : BroadcastVisit(t, id)
    \/ \E t \in Lockers : BroadcastTimeout(t)
    \/ \E t \in Lockers : BroadcastReturn(t)
    \/ \E t \in Lockers : LockerBroadcastReturn(t)

\* Goroutines calling the methods of the service that take s.mu or
\* s.subMu, one lock operation or one access at a time.
SpecLocks == InitLocks /\ [][NextLocks]_vars

\* ------------------------------------------------ the GetBulkCrypto handler

\* if len(req.Coins) > 20
MaxCoinsAllowed == 20

\* A request body after c.ShouldBindJSON: bound is FALSE when the binding
\* fails (no "coins" field).
BulkRequest(bound, cs) == [bound |-> bound, coins |-> cs]

\* Request bodies: the short lists, lists around the ceiling, and a body
\* without coins.
BulkRequests ==
    {BulkRequest(FALSE, <<>>)}
        \cup {BulkRequest(TRUE, cs) : cs \in SeqsUpTo(Symbols, MaxBulkCoins)}
        \cup {BulkRequest(TRUE, CycleCoins(n)) :
                 n \in (MaxCoinsAllowed - 1)..(MaxCoinsAllowed + 1)}

\* Mutant of ValidateBulk: the ceiling test is len(req.Coins) >= 20.
ValidateBulkBelowCeiling(req) ==
    IF ~req.bound
    THEN [status |-> 400, message |-> "Invalid request format"]
    ELSE IF Len(req.coins) = 0
    THEN [status |-> 400, message |-> "At least one coin is required"]
    ELSE IF Len(req.coins) >= MaxCoinsAllowed
    THEN [status |-> 400, message |-> "Maximum 20 coins allowed"]
    ELSE [status |-> 0, message |-> ""]

\* The three tests the handler makes before it calls the service: the
\* response it writes, or status 0 if the request passes.
ValidateBulk(req) ==
    IF ~req.bound
    THEN [status |-> 400, message |-> "Invalid request format"]
    ELSE IF Len(req.coins) = 0
    THEN [status |-> 400, message |-> "At least one coin is required"]
    ELSE IF Len(req.coins) > MaxCoinsAllowed
    THEN [status |-> 400, message |-> "Maximum 20 coins allowed"]
    ELSE [status |-> 0, message |-> ""]

\* The handler receives a request and validates it: a bad request is
\* answered at once and the handler returns.
HandleBulkRequest(req) ==
    /\ bulkReq.pc \in {"idle", "rejected"}
    /\ LET v == ValidateBulk(req) IN
         bulkReq' = [pc |-> IF v.status = 0 THEN "validated" ELSE "rejected",
                     coins |-> req.coins,
                     status |-> v.status,
                     message |-> v.message]
    /\ bulkReq' # bulkReq
    /\ UNCHANGED <<fetchVars, bulkVars, callsMade, stats, hubVars, streamVars,
                   tickVars, lockVars>>

\* h.cryptoService.GetBulkCrypto(req.Coins, timeout), for the lists the
\* workers of the model can serve.
HandlerCallBulk ==
    /\ bulkReq.pc = "validated"
    /\ Len(bulkReq.coins) <= MaxTasks
    /\ CallBulk(bulkReq.coins)

\* The service has returned (its error is always nil) and the handler
\* writes the report.
HandlerRespond ==
    /\ bulkReq.pc = "validated"
    /\ op = "bulk"
    /\ cpc = "returned"
    /\ bulkReq' = [bulkReq EXCEPT !.pc = "responded", !.status = 200,
                      !.message = "Bulk crypto data retrieved successfully"]
    /\ UNCHANGED <<fetchVars, bulkVars, callsMade, stats, hubVars, streamVars,
                   tickVars, lockVars>>

NextHandler ==
    \/ \E req \in BulkRequests : HandleBulkRequest(req)
    \/ HandlerCallBulk
    \/ \E i \in Tasks : BulkWorkerStart(i)
    \/ WorkerFetch
    \/ \E i \in Tasks : BulkSelectDone(i)
    \/ \E i \in Tasks : BulkSelectTimeout(i)
    \/ Deadline
    \/ CloseResults
    \/ Collect
    \/ Return
    \/ HandlerRespond

\* Requests to the GetBulkCrypto handler under every stub source.
SpecHandler == InitBulk /\ [][NextHandler]_vars

\* ------------------------------------------------ after a bulk call

\* The fetch slot of a GetSingleCrypto call made after GetBulkCrypto has
\* returned.
LateCaller == Len(coins) + 1

\* A client calls GetSingleCrypto(c) once GetBulkCrypto has returned and
\* the fetches its workers started have all ended.
CallAfterBulk(c) ==
    /\ op = "bulk"
    /\ cpc = "returned"
    /\ LateCaller \in Tasks
    /\ \A i \in 1..Len(coins) : fpc[i] = "ret"
    /\ CallSingle(LateCaller, c)

\* The clock advances after the report has been returned.
TickAfterBulk(d) ==
    /\ op = "bulk"
    /\ cpc = "returned"
    /\ Tick(d)

NextAfterBulk ==
    \/ NextBulk
    \/ \E c \in Symbols : CallAfterBulk(c)
    \/ \E d \in ClockSteps : TickAfterBulk(d)

\* GetBulkCrypto, the fetches it leaves behind, and a later
\* GetSingleCrypto call.
SpecAfterBulk == InitBulk /\ [][NextAfterBulk]_vars

\* ------------------------------------------------ the simulated price

\* priceChange := (rand.Float64() - 0.5) * 0.02, in hundredths of a percent:
\* the ends of the range [-1%, +1%).
PriceChanges == {-100, 99}

\* newPrice := crypto.Price * (1 + priceChange)
NewPrice(price, d) == (price * (10000 + d)) \div 10000

\* models.PriceUpdate with its Price: CoinID and Price are taken from the
\* record GetSingleCrypto returned, the price with the change applied.
PricedUpdate(crypto, d) ==
    [CoinID |-> crypto.ID, Price |-> NewPrice(crypto.Price, d), UpdateType |-> "price"]

\* Mutant of StreamWorkerFinishPriced: the new price is assigned to the
\* cached record too.
StreamWorkerFinishPricedIntoCache(i, d) ==
    /\ swpc[i] = "fetch"
    /\ fpc[i] = "ret"
    /\ updateChan' = IF fres[i].err = NoError
                     THEN Append(updateChan, PricedUpdate(fres[i].crypto, d))
                     ELSE updateChan
    /\ cache' = IF fres[i].err = NoError /\ fcoin[i] \in DOMAIN cache
                THEN [cache EXCEPT ![fcoin[i]].Price = NewPrice(fres[i].crypto.Price, d)]
                ELSE cache
    /\ swg' = swg - 1
    /\ swpc' = [swpc EXCEPT ![i] = "done"]
    /\ fpc' = [fpc EXCEPT ![i] = "none"]
    /\ UNCHANGED <<now, source, apiCalls, failedOnce, fcoin, fres, spc, sconf,
                   updateCount, sctx, eventChan, updateClosed, hpc, emitted,
                   tickEmitted, tickDropped, outsideStream>>

\* StreamWorkerFinish with the price of the update: the fetch goroutine of
\* streamPriceUpdates computes newPrice from the returned record and sends
\* the update.
StreamWorkerFinishPriced(i, d) ==
    /\ swpc[i] = "fetch"
    /\ fpc[i] = "ret"
    /\ updateChan' = IF fres[i].err = NoError
                     THEN Append(updateChan, PricedUpdate(fres[i].crypto, d))
                     ELSE updateChan
    /\ swg' = swg - 1
    /\ swpc' = [swpc EXCEPT ![i] = "done"]
    /\ fpc' = [fpc EXCEPT ![i] = "none"]
    /\ UNCHANGED <<cache, now, source, apiCalls, failedOnce, fcoin, fres, spc, sconf,
                   updateCount, sctx, eventChan, updateClosed, hpc, emitted,
                   tickEmitted, tickDropped, outsideStream>>

\* RoundWorkerFetched with the price of the update: the round goroutine of
\* StartPriceStreaming computes newPrice and builds the event it is going
\* to broadcast.
RoundWorkerFetchedPriced(w, d) ==
    /\ rpc[w] = "fetch"
    /\ fpc[w] = "ret"
    /\ fpc' = [fpc EXCEPT ![w] = "none"]
    /\ IF fres[w].err # NoError
       THEN /\ rpc' = [rpc EXCEPT ![w] = "done"]
            /\ UNCHANGED bevent
       ELSE /\ rpc' = [rpc EXCEPT ![w] = "call"]
            /\ bevent' = [bevent EXCEPT ![w] = StreamEvent(PricedUpdate(fres[w].crypto, d))]
    /\ UNCHANGED <<cache, now, source, apiCalls, failedOnce, fcoin, fres, tpc, tcoins,
                   tctx, ticks, rounds, rseen, bulkVars, handlerVars, hubVars,
                   streamVars, lockVars>>

\* One of the two streaming modes runs, its updates carrying their prices,
\* while a client may call ClearCache: StreamPriceUpdates for one request,
\* or StartPriceStreaming broadcasting to the clients connected at its
\* start.
NextPrices ==
    \/ \E config \in StreamInputs : tpc = "none" /\ CallStream(config)
    \/ StreamTick
    \/ StreamCancelSeen
    \/ StreamWorkerFetch
    \/ \E i \in Tasks, d \in PriceChanges : StreamWorkerFinishPriced(i, d)
    \/ StreamCloseUpdates
    \/ StreamEmit
    \/ StreamTickEnd
    \/ StreamConsume
    \/ StreamHandlerEnd
    \/ ClientDisconnect
    \/ \E cs \in TickerInputs : spc = "none" /\ StartPriceStreaming(cs)
    \/ TickerTick
    \/ TickerCancel
    \/ TickerCancelSeen
    \/ RoundWorkerFetch
    \/ \E w \in RoundWorkers, d \in PriceChanges : RoundWorkerFetchedPriced(w, d)
    \/ \E w \in RoundWorkers : RoundBroadcastStart(w)
    \/ \E b \in RoundCalls, id \in SubIDs : BroadcastVisit(b, id)
    \/ \E b \in RoundCalls : BroadcastTimeout(b)
    \/ \E b \in RoundCalls : BroadcastReturn(b)
    \/ \E w \in RoundWorkers : RoundWorkerDone(w)
    \/ (spc # "none" \/ tpc # "none") /\ ClearCache

SpecPrices == InitTicker /\ [][NextPrices]_vars

\* ------------------------------------------------ a stream with a backlog

\* A StreamPrices request some time after its start: the consumer has
\* fallen behind and the event channel holds 99 or 100 events (event 0
\* stands for the earlier events). updateCount and MaxUpdates count the
\* ticks from this state on: the loop only compares the two.
InitBacklogStream ==
    /\ InitRequests
    /\ InitRegistry
    /\ InitNoTicker
    /\ InitNoLocks
    /\ source \in [Symbols -> StreamSourceModes]
    /\ spc = "select"
    /\ sconf \in StreamInputs
    /\ updateCount = 0
    /\ sctx = FALSE
    /\ \E n \in Backlogs :
          /\ eventChan = ChanWithBacklog(n)
          /\ emitted = n
    /\ swpc = [i \in Tasks |-> "none"]
    /\ swg = 0
    /\ updateChan = <<>>
    /\ updateClosed = FALSE
    /\ hpc = "range"
    /\ tickEmitted = 0
    /\ tickDropped = 0

\* The steps of the StreamPriceUpdates goroutine and of the goroutines its
\* ticks start.
ProducerProgress ==
    \/ StreamCancelSeen
    \/ StreamWorkerFetch
    \/ \E i \in Tasks : StreamWorkerFinish(i)
    \/ StreamCloseUpdates
    \/ StreamEmit
    \/ StreamTickEnd

\* The consumer is slow: it takes an event only from a channel that is
\* full or one short of full, so the backlog stays.
NextBacklogStream ==
    \/ StreamTick
    \/ ProducerProgress
    \/ Len(eventChan.buf) >= QueueCap - 1 /\ StreamConsume
    \/ ClientDisconnect

SpecBacklogStream == InitBacklogStream /\ [][NextBacklogStream]_vars

\* The producer's goroutines are scheduled, the ticker fires and the send
\* timer fires; nothing is assumed about the consumer, which may read
\* late or never.
FairBacklogStream ==
    SpecBacklogStream /\ WF_vars(ProducerProgress) /\ WF_vars(StreamTick)

\* ------------------------------------------------ claims C21 to C30

\* The report a bulk operation builds and returns.
Report == <<portfolio, totalValue, successCount, errorCount>>

\* Workers of GetBulkCrypto that left through the deadline while their
\* GetSingleCrypto call was still running.
Abandoned == {i \in 1..Len(coins) : wpc[i] = "exit" /\ i \in pendingAtDeadline}

\* C21: the result of a fetch abandoned at the deadline is discarded. A
\* step of a GetSingleCrypto call whose worker has left changes nothing of
\* the bulk call (no record is sent, the report is not touched); a
\* returned report never changes; and a record is sent only by a worker
\* leaving its select, so a worker that has sent "timeout" sends nothing
\* more.
C21_LateResultDiscarded ==
    /\ [][\A i \in Tasks :
             (op = "bulk" /\ wpc[i] = "exit" /\ fpc'[i] # fpc[i])
                 => UNCHANGED bulkVars]_vars
    /\ [][cpc = "returned" => (Report' = Report /\ results' = results /\ cpc' = cpc)]_vars
    /\ [][Len(results') > Len(results)
             => /\ Len(results') = Len(results) + 1
                /\ \E j \in 1..Len(coins) : wpc[j] = "select" /\ wpc'[j] = "exit"]_vars
    /\ [][\A i \in Tasks : wpc[i] = "exit" => wpc'[i] = "exit"]_vars

\* GetBulkCrypto(<<"bitcoin">>) has returned a report whose only record is
\* the "timeout" placeholder, and the abandoned GetSingleCrypto call has
\* since completed with the price, which went to the cache only.
C21_Witness ==
    /\ op = "bulk"
    /\ cpc = "returned"
    /\ coins = <<"bitcoin">>
    /\ Abandoned = {1}
    /\ Len(portfolio) = 1
    /\ portfolio[1].Error = TimeoutError
    /\ errorCount = 1 /\ successCount = 0 /\ totalValue = 0
    /\ fpc[1] = "ret"
    /\ fres[1].err = NoError
    /\ fres[1].crypto.Price = StubPrice("bitcoin")
    /\ "bitcoin" \in DOMAIN cache


\* Sum of Price over all the records of seq.
RECURSIVE SumOfPrices(_)
SumOfPrices(seq) ==
    IF seq = <<>> THEN 0 ELSE Head(seq).Price + SumOfPrices(Tail(seq))

\* A record is either a failure placeholder without price or a fetched
\* price without error.
ErrorXorPrice(rec) ==
    /\ rec.Error # NoError => rec.Price = 0
    /\ rec.Price # 0 => rec.Error = NoError

\* C22: no record combines an error with a price. Every record sent by a
\* worker, every record of a report being built or returned and every
\* cache entry is a placeholder with price 0 or a fetched price with an
\* empty error; cache entries are of the second kind; so the failure
\* records add nothing to totalValue, which is the sum of all prices of
\* the report.
C22_ErrorNeverWithPrice ==
    /\ \A k \in 1..Len(results) : ErrorXorPrice(results[k])
    /\ \A k \in 1..Len(portfolio) :
          /\ ErrorXorPrice(portfolio[k])
          /\ portfolio[k].Error = NoError => portfolio[k].Price = StubPrice(portfolio[k].ID)
    /\ \A c \in DOMAIN cache :
          /\ cache[c].Error = NoError
          /\ cache[c].ID = c
          /\ cache[c].Price = StubPrice(c)
    /\ totalValue = SumOfPrices(portfolio)

\* A returned report holding a failure placeholder and a fetched price,
\* the latter also in the cache.
C22_Witness ==
    /\ cpc = "returned"
    /\ \E k \in 1..Len(portfolio) : portfolio[k].Error # NoError /\ portfolio[k].Price = 0
    /\ \E k \in 1..Len(portfolio) :
          /\ portfolio[k].Error = NoError
          /\ portfolio[k].Price > 0
          /\ portfolio[k].ID \in DOMAIN cache
    /\ totalValue > 0

\* BroadcastToSubscribers calls inside their range loop, that is between
\* s.subMu.RLock() and the deferred RUnlock.
RegistryReaders == {b \in DOMAIN bpc : bpc[b] \in {"range", "select"}}

\* C23: the cache map and the subscriber registry are never accessed
\* outside their locks. A holder of the exclusive lock excludes every other
\* holder, shared or exclusive, while holders of the shared lock may
\* overlap; the cache map changes only in a step of the goroutine holding
\* s.mu exclusively, it is read (the lookup of GetSingleCrypto, the count
\* of GetCacheStats) only in a step of a goroutine holding s.mu shared;
\* the registry and the channels' closed flags change only in a step of
\* the goroutine holding s.subMu exclusively, and the range loop of a
\* broadcast runs only while it holds s.subMu shared.
C23_AccessUnderLock ==
    /\ [](/\ Cardinality(cacheMu.w) <= 1
          /\ cacheMu.w # {} => cacheMu.r = {}
          /\ Cardinality(subMu.w) <= 1
          /\ subMu.w # {} => subReaders = 0
          /\ subReaders = Cardinality(RegistryReaders))
    /\ [][cache' # cache =>
             \E t \in cacheMu.w : /\ cacheMu' = cacheMu
                                  /\ cacheMu.w = {t}
                                  /\ lop[t] \in {"fetch", "clear"}]_vars
    /\ [][\A t \in Lockers : fpc[t] = "read" /\ fpc'[t] # "read" =>
             t \in cacheMu.r /\ cacheMu' = cacheMu]_vars
    /\ [][stats' # stats =>
             \E t \in cacheMu.r : lop[t] = "stats" /\ cacheMu' = cacheMu]_vars
    /\ [][(subscribers' # subscribers \/ ClosedFlags' # ClosedFlags) =>
             \E t \in subMu.w : /\ subMu' = subMu
                                /\ subMu.w = {t}
                                /\ lop[t] \in {"add", "remove"}]_vars
    /\ [][\A b \in Lockers : (btodo'[b] # btodo[b] \/ bsent'[b] # bsent[b]
                                 \/ bdropped'[b] # bdropped[b]) =>
             b \in RegistryReaders \cup RegistryReaders']_vars

\* Two goroutines hold s.mu shared at once, over a cache that has been
\* written, while a third access path, the registry, is locked
\* independently of it.
C23_Witness ==
    /\ Cardinality(cacheMu.r) = 2
    /\ cache # <<>>
    /\ \E t \in cacheMu.r : lop[t] = "stats"
    /\ \E t \in cacheMu.r : lop[t] = "fetch"

\* C24: a bulk operation called with an empty coin list makes no
\* GetSingleCrypto call and no upstream call, starts no worker, leaves the
\* cache alone and keeps an empty report with zero totalValue,
\* successCount and errorCount; whether or not the deadline has expired,
\* the caller is never blocked: the results channel can be closed at once
\* and the collector's loop then ends, and the call takes no other step
\* than the expiry of the deadline, the close and the return.
C24_EmptyListEmptyReport ==
    /\ []((op # "none" /\ coins = <<>>) =>
            /\ Report = <<<<>>, 0, 0, 0>>
            /\ results = <<>>
            /\ wg = 0
            /\ \A i \in Tasks : wpc[i] = "none" /\ fpc[i] = "none"
            /\ \A c \in Symbols : apiCalls[c] = 0
            /\ cache = <<>>
            /\ cpc = "collect" =>
                  IF resultsClosed THEN ENABLED Return ELSE ENABLED CloseResults)
    /\ [][(op # "none" /\ coins = <<>>) =>
             \/ ~resultsClosed /\ resultsClosed' /\ cpc' = cpc
             \/ cpc = "collect" /\ resultsClosed /\ cpc' = "returned"
             \/ op = "bulk" /\ ~ctxDone /\ ctxDone' /\ cpc' = cpc]_vars

\* GetBulkCrypto has returned from a call with an empty list whose deadline
\* had expired before the return.
C24_Witness ==
    /\ op = "bulk"
    /\ coins = <<>>
    /\ ctxDone
    /\ cpc = "returned"
    /\ Report = <<<<>>, 0, 0, 0>>

\* The request the handler has received is structurally invalid.
InvalidBulk == Len(bulkReq.coins) = 0 \/ Len(bulkReq.coins) > MaxCoinsAllowed

\* C25: a bulk request with an empty list or with more than 20 coins is
\* answered with status 400 before any fetch begins: no bulk operation is
\* started, no GetSingleCrypto call is made, the upstream is not called and
\* the cache is as it was, and nothing happens for the request afterwards;
\* a request with 1 to 20 coins passes the validation, and the bulk
\* operation the handler starts works on exactly the request's coins.
C25_InvalidBulkRejected ==
    /\ [](bulkReq.pc # "idle" =>
            /\ InvalidBulk <=> bulkReq.pc = "rejected"
            /\ ~InvalidBulk <=> bulkReq.pc \in {"validated", "responded"}
            /\ bulkReq.pc = "rejected" =>
                  /\ bulkReq.status = 400
                  /\ op = "none"
                  /\ \A i \in Tasks : fpc[i] = "none" /\ wpc[i] = "none"
                  /\ \A c \in Symbols : apiCalls[c] = 0
                  /\ cache = <<>>
            /\ bulkReq.pc = "responded" => bulkReq.status = 200)
    /\ [](op # "none" =>
            /\ bulkReq.pc \in {"validated", "responded"}
            /\ coins = bulkReq.coins)
    /\ [][bulkReq'.pc = "rejected" => UNCHANGED <<fetchVars, bulkVars>>]_vars

\* A request with 21 coins has been answered with "Maximum 20 coins
\* allowed".
C25_Witness ==
    /\ bulkReq.pc = "rejected"
    /\ Len(bulkReq.coins) = MaxCoinsAllowed + 1
    /\ bulkReq.status = 400
    /\ bulkReq.message = "Maximum 20 coins allowed"

\* The channels the registry maps some id to.
RegisteredChans == {subscribers[id] : id \in DOMAIN subscribers}

\* C26: AddSubscriber(id) for an id that is registered replaces its entry:
\* the registry keeps one entry per id and no two ids share a channel, the
\* step leaves the other entries and the replaced channel as they were and
\* maps id to the channel it has just made, which is empty and open; from
\* then on a channel that no entry maps to (the replaced one) receives no
\* event and is not closed, so that every later broadcast's send for id
\* goes to the new channel.
C26_ResubscribeReplaces ==
    /\ [](/\ \A id1, id2 \in DOMAIN subscribers :
                subscribers[id1] = subscribers[id2] => id1 = id2
          /\ RegisteredChans \subseteq 1..Len(chans))
    /\ [][Len(chans') # Len(chans) =>
             \E id \in SubIDs :
                /\ chans' = Append(chans, MakeChan)
                /\ DOMAIN subscribers' = DOMAIN subscribers \cup {id}
                /\ subscribers'[id] = Len(chans')
                /\ \A other \in DOMAIN subscribers \ {id} :
                      subscribers'[other] = subscribers[other]]_vars
    /\ [][\A ch \in 1..Len(chans) :
             ch \notin RegisteredChans =>
                /\ ch \notin RegisteredChans'
                /\ \/ chans'[ch].buf = chans[ch].buf
                   \/ /\ chans[ch].buf # <<>>
                      /\ chans'[ch].buf = Tail(chans[ch].buf)
                /\ chans'[ch].closed = chans[ch].closed]_vars
    /\ [][\A ch \in 1..Len(chans) :
             Len(chans'[ch].buf) > Len(chans[ch].buf) =>
                \E b \in DOMAIN bpc, id \in DOMAIN subscribers :
                   /\ subscribers[id] = ch
                   /\ bpc[b] = "range"
                   /\ id \in btodo[b] /\ id \notin btodo'[b]]_vars

\* c1 has subscribed again while its first channel had room for one more
\* event; the broadcast that followed reached c1 through the new channel
\* only, and the first channel is open and holds what it held.
C26_Witness ==
    /\ Len(chans) = 3
    /\ "c1" \in DOMAIN subscribers
    /\ subscribers["c1"] = 3
    /\ bpc[1] = "done"
    /\ "c1" \in DOMAIN bsent[1]
    /\ chans[3] = [buf |-> <<1>>, closed |-> FALSE]
    /\ chans[1] = ChanWithBacklog(QueueCap - 1)

\* The workers (positions of the coins argument) that serve coin c.
WorkersFor(c) == {i \in 1..Len(coins) : coins[i] = c}

\* The positions of the report's records for coin c.
RecordsOf(c) == {k \in 1..Len(portfolio) : portfolio[k].ID = c}

\* C27: the occurrences of a coin that is listed more than once in one
\* GetBulkCrypto call are served independently: each has its own worker
\* and its own GetSingleCrypto call for that coin, the upstream is called
\* at most once per occurrence (and can be called once for each), the
\* returned report has one record per occurrence, and the cache entry of
\* the coin, if there is one, is an error-free record of that coin equal to
\* the result of one of the occurrences' fetches.
C27_DuplicatesIndependent ==
    op = "bulk" =>
        /\ \A i \in 1..Len(coins) :
              /\ wpc[i] # "none"
              /\ fpc[i] # "none" => fcoin[i] = coins[i]
        /\ \A c \in Symbols :
              /\ apiCalls[c] <= Cardinality(WorkersFor(c))
              /\ cpc = "returned" =>
                    Cardinality(RecordsOf(c)) = Cardinality(WorkersFor(c))
        /\ \A c \in DOMAIN cache :
              /\ cache[c].ID = c
              /\ cache[c].Error = NoError
              /\ \E i \in WorkersFor(c) :
                    /\ fpc[i] = "ret"
                    /\ fres[i] = [crypto |-> cache[c], err |-> NoError]

\* GetBulkCrypto has returned from a call that lists bitcoin twice: both
\* fetches called the upstream, both records are in the report, and the
\* cache holds one entry.
C27_Witness ==
    /\ op = "bulk"
    /\ cpc = "returned"
    /\ coins = <<"bitcoin", "bitcoin">>
    /\ apiCalls["bitcoin"] = 2
    /\ Len(portfolio) = 2
    /\ DOMAIN cache = {"bitcoin"}
    /\ \A k \in 1..2 : portfolio[k] = cache["bitcoin"]
    /\ successCount = 2

\* C28: a channel made by AddSubscriber never holds more than 100 events,
\* and it is a FIFO: a new channel is empty, a send appends the event
\* behind the events the channel holds (and only while it holds fewer than
\* 100), and a receive takes the event at the front, the oldest; when a
\* receive from a full channel lets a blocked send complete, the oldest
\* event leaves and the new one is appended.
C28_QueueBoundedFifo ==
    /\ [](\A ch \in 1..Len(chans) : Len(chans[ch].buf) \in 0..QueueCap)
    /\ [][\A ch \in 1..Len(chans') :
             IF ch > Len(chans)
             THEN chans'[ch].buf = <<>>
             ELSE LET old == chans[ch].buf
                      new == chans'[ch].buf
                  IN  \/ new = old
                      \/ /\ Len(old) < QueueCap
                         /\ Len(new) = Len(old) + 1
                         /\ SubSeq(new, 1, Len(old)) = old
                         /\ new[Len(new)] \in DOMAIN bpc
                      \/ /\ old # <<>>
                         /\ new = Tail(old)
                         /\ consumed' = consumed + 1
                      \/ /\ Len(old) = QueueCap
                         /\ Len(new) = QueueCap
                         /\ SubSeq(new, 1, QueueCap - 1) = Tail(old)
                         /\ new[QueueCap] \in DOMAIN bpc
                         /\ consumed' = consumed + 1]_vars

\* A full channel whose consumer has received the oldest event: the event
\* of the broadcast that was blocked on it is the last of its 100 events,
\* behind the 99 older ones.
C28_Witness ==
    /\ consumed = 1
    /\ Len(chans[1].buf) = QueueCap
    /\ chans[1].buf[QueueCap] = 1
    /\ \A k \in 1..(QueueCap - 1) : chans[1].buf[k] = 0
    /\ "c1" \in DOMAIN bsent[1]

\* C29: ClearCache leaves an empty cache, for which GetCacheStats reports
\* 0 coins and no keys and which makes the next GetSingleCrypto of any coin
\* miss and go to the upstream; the count GetCacheStats reports is always
\* the number of keys it lists, and these are the keys of the cache, which
\* are the coins fetched successfully since the last ClearCache: the set of
\* keys only changes by becoming empty or by gaining the coin of a fetch
\* that writes its successful result, and every such fetch adds its coin.
C29_ClearEmptiesCache ==
    /\ [](stats.cached_coins = Cardinality(stats.cache_keys))
    /\ [][stats' # stats =>
             /\ stats'.cache_keys = DOMAIN cache
             /\ cache = <<>> => stats' = [cached_coins |-> 0, cache_keys |-> {}]]_vars
    /\ [][DOMAIN cache' # DOMAIN cache =>
             \/ cache' = <<>> /\ fpc' = fpc /\ apiCalls' = apiCalls
             \/ \E i \in Tasks :
                   /\ fpc[i] = "write" /\ fpc'[i] = "ret"
                   /\ fres[i].err = NoError
                   /\ DOMAIN cache' = DOMAIN cache \cup {fcoin[i]}]_vars
    /\ [][\A i \in Tasks :
             /\ (fpc[i] = "write" /\ fpc'[i] # "write")
                   => (fcoin[i] \in DOMAIN cache' /\ cache'[fcoin[i]] = fres[i].crypto)
             /\ (fpc[i] = "read" /\ fpc'[i] # "read" /\ fcoin[i] \notin DOMAIN cache)
                   => fpc'[i] = "api"
             /\ (fpc[i] = "api" /\ fpc'[i] # "api")
                   => /\ apiCalls'[fcoin[i]] = apiCalls[fcoin[i]] + 1
                      /\ fres'[i].err # NoError => cache' = cache]_vars

\* The cache has been cleared after a successful fetch of bitcoin, within
\* the same second; the next GetSingleCrypto("bitcoin") has missed and is
\* about to call the upstream.
C29_Witness ==
    /\ cache = <<>>
    /\ stats = [cached_coins |-> 0, cache_keys |-> {}]
    /\ now = 0
    /\ callsMade = 2
    /\ apiCalls["bitcoin"] = 1
    /\ failedOnce = {}
    /\ fpc[1] = "api"
    /\ fcoin[1] = "bitcoin"
    /\ \A j \in Tasks \ {1} : fpc[j] = "none"

\* C30: no event is sent on a closed subscriber channel, in any
\* interleaving of AddSubscriber, RemoveSubscriber and concurrent
\* BroadcastToSubscribers calls: nothing panics; a registered channel is
\* open; a channel is closed only in a step of the RemoveSubscriber call
\* that holds s.subMu exclusively, while no broadcast holds it shared, and
\* the same step deletes the channel's entry; an event is put only into an
\* open channel that the registry maps an id to, by a broadcast that holds
\* s.subMu shared while no goroutine holds it exclusively.
C30_NoSendOnClosed ==
    /\ [](/\ ~panicked
          /\ \A id \in DOMAIN subscribers : ~chans[subscribers[id]].closed)
    /\ [][\A ch \in 1..Len(chans) :
             (~chans[ch].closed /\ chans'[ch].closed) =>
                /\ subReaders = 0
                /\ \E t \in subMu.w :
                      /\ lop[t] = "remove"
                      /\ larg[t].id \in DOMAIN subscribers
                      /\ subscribers[larg[t].id] = ch
                      /\ larg[t].id \notin DOMAIN subscribers'
                /\ ch \notin RegisteredChans']_vars
    /\ [][\A ch \in 1..Len(chans) :
             chans'[ch].buf # chans[ch].buf =>
                /\ ~chans[ch].closed
                /\ ~chans'[ch].closed
                /\ subMu.w = {}
                /\ \E b \in RegistryReaders, id \in DOMAIN subscribers :
                      /\ subscribers[id] = ch
                      /\ id \in btodo[b]
                      /\ chans'[ch].buf = Append(chans[ch].buf, b)]_vars

\* A broadcast has delivered its event to a client's channel and has
\* returned, and the client has then been removed: the channel is closed
\* with the event in it, and nothing has panicked.
C30_Witness ==
    /\ ~panicked
    /\ \E b \in Lockers, id \in LockIDs :
          /\ bpc[b] = "done"
          /\ id \in DOMAIN bsent[b]
          /\ id \notin DOMAIN subscribers
          /\ \E ch \in 1..Len(chans) :
                /\ chans[ch].closed
                /\ chans[ch].buf = <<b>>

\* ------------------------------------------------ claims C31 to C39

\* The GetSingleCrypto calls still running after their worker has left
\* (it can only have left through the deadline).
LateFetches == {i \in 1..Len(coins) : wpc[i] = "exit" /\ fpc[i] \in {"read", "api", "write"}}

\* The coins the report lists with the error "timeout".
TimedOutCoins == {portfolio[k].ID : k \in {n \in 1..Len(portfolio) : portfolio[n].Error = TimeoutError}}

\* C31: a GetSingleCrypto call whose worker gave up at the deadline goes
\* on: as long as the upstream does not hang its next step can be taken,
\* whether or not GetBulkCrypto has returned, and when it succeeds its
\* result is written into the cache while the report stays as it is; a
\* later GetSingleCrypto call that finds the entry fresh returns it without
\* an upstream call.
C31_AbandonedFetchFillsCache ==
    /\ [](\A i \in LateFetches :
             (fpc[i] \in {"read", "write"} \/ source[fcoin[i]] # "hang")
                 => ENABLED (WorkerFetch /\ fpc'[i] # fpc[i]))
    /\ [][\A i \in LateFetches :
             (fpc[i] = "write" /\ fpc'[i] # "write") =>
                /\ fcoin[i] \in DOMAIN cache'
                /\ cache'[fcoin[i]] = fres[i].crypto
                /\ cache'[fcoin[i]].Error = NoError
                /\ Report' = Report]_vars
    /\ [][(op = "bulk" /\ cpc = "returned" /\ LateCaller \in Tasks
              /\ fpc[LateCaller] = "read" /\ fpc'[LateCaller] # "read"
              /\ HasFreshEntry(fcoin[LateCaller])) =>
             /\ fpc'[LateCaller] = "ret"
             /\ fres'[LateCaller] = [crypto |-> cache[fcoin[LateCaller]], err |-> NoError]
             /\ apiCalls' = apiCalls]_vars

\* GetBulkCrypto(["bitcoin"]) has returned a report that lists bitcoin as
\* "timeout"; the abandoned fetch has since filled the cache, and the
\* GetSingleCrypto("bitcoin") call made 59 seconds later was answered from
\* it: the upstream has been called once in all.
C31_Witness ==
    /\ op = "bulk"
    /\ cpc = "returned"
    /\ coins = <<"bitcoin">>
    /\ TimedOutCoins = {"bitcoin"}
    /\ 1 \in pendingAtDeadline
    /\ apiCalls["bitcoin"] = 1
    /\ now = 59
    /\ fpc[2] = "ret"
    /\ fcoin[2] = "bitcoin"
    /\ "bitcoin" \in DOMAIN cache
    /\ fres[2] = [crypto |-> cache["bitcoin"], err |-> NoError]
    /\ fres[1] = fres[2]

\* Goroutine v is inside the upstream call of GetSingleCrypto: it has
\* missed and has released the shared lock.
InUpstreamCall(v) == lop[v] = "fetch" /\ fpc[v] = "api" /\ v \notin cacheMu.r

\* C32: GetSingleCrypto holds no lock on the cache while its upstream call
\* is in flight: after a miss the shared lock can be released at once, the
\* call is made holding nothing, and the exclusive lock is requested only
\* for the write that follows a successful call. A goroutine whose call
\* hangs therefore blocks nobody: whenever every other goroutine is idle
\* or inside an upstream call, a goroutine that asks for the shared lock
\* (a cache lookup, GetCacheStats) or the exclusive lock (ClearCache) is
\* granted it.
C32_NoLockDuringCall ==
    /\ [](\A t \in Lockers :
            /\ InUpstreamCall(t) => HoldsNothing(t)
            /\ (lop[t] = "fetch" /\ fpc[t] = "api" /\ t \in cacheMu.r)
                  => ENABLED CacheRUnlock(t)
            /\ (\A v \in Lockers \ {t} : lop[v] = "none" \/ InUpstreamCall(v)) =>
                  /\ (((lop[t] = "fetch" /\ fpc[t] = "read") \/ lop[t] = "stats")
                         /\ t \notin cacheMu.r) => ENABLED CacheRLock(t)
                  /\ (lop[t] = "clear" /\ t \notin cacheMu.w) => ENABLED CacheLock(t))
    /\ [][\A t \in Lockers :
             /\ (fpc[t] = "api" /\ fpc'[t] # "api") => HoldsNothing(t)
             /\ (t \notin cacheMu.w /\ t \in cacheMu'.w /\ lop[t] = "fetch")
                   => (fpc[t] = "write" /\ fres[t].err = NoError)]_vars

\* While goroutine 1 waits for a bitcoin answer that never comes, goroutine
\* 2 has fetched ethereum and now holds the exclusive lock in ClearCache,
\* the cache already emptied.
C32_Witness ==
    /\ InUpstreamCall(1)
    /\ fcoin[1] = "bitcoin"
    /\ source["bitcoin"] = "hang"
    /\ lop[2] = "clear"
    /\ cacheMu.w = {2}
    /\ apiCalls["ethereum"] = 1
    /\ cache = <<>>

\* The subscribers a call found saturated and has finished with.
WaitedFor(b) == bfull[b] \ (IF bpc[b] = "select" THEN {bcur[b]} ELSE {})

\* C33: BroadcastToSubscribers handles one subscriber at a time and waits
\* at each saturated one: while it is blocked on a subscriber every other
\* saturated subscriber it has met is settled (dropped or served late); the
\* time it has waited is at most 100 ms per saturated subscriber met, and
\* at least 100 ms per subscriber it has dropped the event for; a
\* subscriber with room is sent the event at the moment of its visit, that
\* is after all the time waited so far; and from the first visit to the
\* last wait the call holds the shared registry lock, so that the registry
\* does not change.
C33_WaitsAddUp ==
    /\ [](\A b \in DOMAIN bpc :
            /\ bpc[b] = "select" => (bcur[b] \in bfull[b]
                                     /\ bcur[b] \notin bdropped[b]
                                     /\ bcur[b] \notin DOMAIN bsent[b])
            /\ WaitedFor(b) \subseteq bdropped[b] \cup DOMAIN bsent[b]
            /\ waited[b] <= SendTimeout * Cardinality(WaitedFor(b))
            /\ waited[b] >= SendTimeout * Cardinality(bdropped[b])
            /\ bpc[b] \in {"range", "select"} => subReaders >= 1)
    /\ [][\A b \in DOMAIN bpc :
             /\ \A id \in DOMAIN bsent'[b] :
                   (id \notin DOMAIN bsent[b] /\ id \notin bfull[b]) =>
                      /\ bpc[b] = "range"
                      /\ bsent'[b][id] = waited[b]
                      /\ waited[b] >= SendTimeout * Cardinality(bdropped[b])
             /\ waited'[b] # waited[b] =>
                   (bpc[b] = "select" /\ waited'[b] > waited[b]
                    /\ waited'[b] <= waited[b] + SendTimeout)
             /\ (bpc[b] \in {"range", "select"} /\ bpc'[b] \in {"range", "select"}) =>
                   (subscribers' = subscribers /\ ClosedFlags' = ClosedFlags)]_vars

\* A broadcast met two saturated subscribers, waited 100 ms at each and
\* dropped the event, and then served the third subscriber, 200 ms after
\* the start of the call.
C33_Witness ==
    /\ bpc[1] = "done"
    /\ bfull[1] = {"c1", "c2"}
    /\ bdropped[1] = {"c1", "c2"}
    /\ waited[1] = 2 * SendTimeout
    /\ DOMAIN bsent[1] = {"c3"}
    /\ bsent[1]["c3"] = 2 * SendTimeout
    /\ subReaders = 0

\* C34: every entry of the cache is a successful record: its error is
\* empty, its FetchedAt is not later than the current time and its ID is
\* its key; an entry appears or changes only in the write step of a
\* GetSingleCrypto call for that key, which stores the result it fetched;
\* the steps that build failure and "timeout" placeholders leave the cache
\* alone.
C34_CacheHoldsSuccessesOnly ==
    /\ [](\A c \in DOMAIN cache :
            /\ cache[c].Error = NoError
            /\ cache[c].FetchedAt <= now
            /\ cache[c].ID = c)
    /\ [][\A c \in DOMAIN cache' :
             (c \notin DOMAIN cache \/ cache'[c] # cache[c]) =>
                \E i \in Tasks :
                   /\ fpc[i] = "write" /\ fpc'[i] = "ret"
                   /\ fcoin[i] = c
                   /\ fres[i].err = NoError
                   /\ cache'[c] = fres[i].crypto]_vars
    /\ [][(Len(results') > Len(results)
              /\ results'[Len(results')].Error # NoError) => cache' = cache]_vars
    /\ [][\A i \in Tasks :
             (fpc[i] = "api" /\ fpc'[i] = "ret") =>
                (fres'[i].err # NoError /\ cache' = cache)]_vars

\* GetBulkCrypto(["bitcoin", "ethereum"]) has returned a "timeout" record
\* for bitcoin and a failure record for ethereum; 59 seconds later the
\* cache holds the bitcoin record the abandoned fetch wrote and nothing for
\* ethereum.
C34_Witness ==
    /\ op = "bulk"
    /\ cpc = "returned"
    /\ coins = <<"bitcoin", "ethereum">>
    /\ TimedOutCoins = {"bitcoin"}
    /\ errorCount = 2
    /\ source["ethereum"] = "neterr"
    /\ DOMAIN cache = {"bitcoin"}
    /\ cache["bitcoin"].FetchedAt = 0
    /\ now = 59

\* C35: streaming never changes cached data. In both streaming modes every
\* cache entry keeps the price its fetch obtained; the cache changes only
\* when a successful fetch writes its record or ClearCache empties it; the
\* steps that build, queue, deliver or drop an update leave the cache
\* alone; and the changed price is found in the updates only.
C35_StreamingLeavesCache ==
    /\ [](\A c \in DOMAIN cache : cache[c].Price = StubPrice(c))
    /\ [](\A k \in 1..Len(updateChan) :
             \E d \in PriceChanges :
                /\ updateChan[k].Price = NewPrice(StubPrice(updateChan[k].CoinID), d)
                /\ updateChan[k].Price # StubPrice(updateChan[k].CoinID))
    /\ [][cache' # cache =>
             \/ cache' = <<>>
             \/ \E i \in Tasks :
                   /\ fpc[i] = "write" /\ fpc'[i] = "ret"
                   /\ fres[i].err = NoError
                   /\ cache' = CachePut(cache, fcoin[i], fres[i].crypto)]_vars
    /\ [][(updateChan' # updateChan \/ eventChan' # eventChan
              \/ bevent' # bevent \/ chans' # chans
              \/ updateCount' # updateCount \/ rounds' # rounds) => cache' = cache]_vars

\* StreamPriceUpdates for bitcoin has ended after two ticks; its two events
\* carry 49500 and 50495 and the cache still holds 50000.
C35_Witness ==
    /\ spc = "done"
    /\ updateCount = 2
    /\ sconf.Coins = <<"bitcoin">>
    /\ Len(eventChan.buf) = 2
    /\ eventChan.buf[1].Data.Price = 49500
    /\ eventChan.buf[2].Data.Price = 50495
    /\ DOMAIN cache = {"bitcoin"}
    /\ cache["bitcoin"].Price = 50000
    /\ apiCalls["bitcoin"] >= 1

\* C36: the producer of a stream never waits for its consumer. A send
\* that finds the event channel full adds nothing to it and counts one
\* dropped event; during a tick some step of the producer's goroutines is
\* always possible; every tick ends; and once the context is cancelled or
\* a max_updates limit is set the producer returns and the channel is
\* closed, whether the consumer reads or not.
C36_ProducerNeverStuck ==
    /\ [](spc = "tick" => ENABLED ProducerProgress)
    /\ [][(updateChan # <<>> /\ updateChan' = Tail(updateChan)
             /\ Len(eventChan.buf) = QueueCap) =>
               (eventChan' = eventChan /\ tickDropped' = tickDropped + 1)]_vars
    /\ (spc = "tick") ~> (spc # "tick")
    /\ (sctx \/ sconf.MaxUpdates > 0) ~> (spc = "done" /\ eventChan.closed)

\* The consumer has read nothing: two ticks found the channel full,
\* dropped their events, and the producer returned at the max_updates
\* limit and closed the channel.
C36_Witness ==
    /\ spc = "done"
    /\ eventChan.closed
    /\ Len(eventChan.buf) = QueueCap
    /\ emitted = QueueCap
    /\ tickDropped >= 1
    /\ updateCount = 2
    /\ sconf.MaxUpdates = 2
    /\ hpc = "range"
    /\ ~sctx

\* Channels that are open and that no registry entry maps to.
Orphans == {ch \in 1..Len(chans) : ch \notin RegisteredChans /\ ~chans[ch].closed}

\* C37: when AddSubscriber(id) replaces the entry of a registered id, the
\* channel the entry held becomes an orphan: open and unregistered. An
\* orphan stays one for ever, so the range loop of its consumer never sees
\* it closed. A channel is closed only by RemoveSubscriber(id) for a
\* registered id, and the channel closed is the one the registry holds for
\* id at that moment, the latest one made for it, which is removed with
\* the entry; no other channel changes and nothing panics.
C37_OrphanNeverClosed ==
    /\ [][\A id \in DOMAIN subscribers :
             (id \in DOMAIN subscribers' /\ subscribers'[id] # subscribers[id]) =>
                /\ subscribers[id] \in Orphans'
                /\ subscribers'[id] = Len(chans')
                /\ subscribers'[id] > subscribers[id]]_vars
    /\ [][Orphans \subseteq Orphans']_vars
    /\ [][\A ch \in 1..Len(chans) :
             chans'[ch].closed # chans[ch].closed =>
                \E id \in DOMAIN subscribers :
                   /\ subscribers[id] = ch
                   /\ chans'[ch].closed
                   /\ id \notin DOMAIN subscribers'
                   /\ \A other \in 1..Len(chans) :
                         other # ch => chans'[other] = chans[other]]_vars
    /\ [](~panicked /\ \A ch \in RegisteredChans : ~chans[ch].closed)

\* c1 subscribed a second time and RemoveSubscriber("c1") then ran: the
\* second channel is closed, c1 has no entry, and the first channel is
\* open with its backlog.
C37_Witness ==
    /\ Len(chans) = 3
    /\ "c1" \notin DOMAIN subscribers
    /\ "c2" \in DOMAIN subscribers
    /\ chans[3].closed
    /\ Orphans = {1}
    /\ Len(chans[1].buf) >= QueueCap - 1

\* Workers of the current call that have sent their record and returned.
Exited == {i \in Tasks : wpc[i] = "exit"}

\* C38: in GetBulkCrypto and GetPortfolioRealtime the results channel never
\* holds more than len(coins) records and every worker that has returned
\* has sent exactly one, so each send finds room; a send happens only on
\* the open channel, by a worker that returns with it; the channel is
\* closed once, when the WaitGroup is at zero and every worker has
\* returned, and stays closed; and once the workers are done the
\* collector's loop ends and the call returns.
C38_ResultsChannelDiscipline ==
    /\ [](/\ Len(results) + Len(portfolio) = Cardinality(Exited)
          /\ Len(results) <= Len(coins)
          /\ wg = Len(coins) - Cardinality(Exited)
          /\ resultsClosed => (wg = 0 /\ Exited = 1..Len(coins)))
    /\ [][Len(results') > Len(results) =>
             /\ ~resultsClosed /\ ~resultsClosed'
             /\ Len(results) < Len(coins)
             /\ results' = Append(results, results'[Len(results')])
             /\ \E i \in Tasks \ Exited : Exited' = Exited \cup {i}]_vars
    /\ [][Exited' # Exited =>
             (Exited \subseteq Exited' /\ Len(results') = Len(results) + 1)]_vars
    /\ [][resultsClosed' # resultsClosed =>
             \/ op = "none"
             \/ /\ ~resultsClosed
                /\ wg = 0
                /\ results' = results]_vars
    /\ (cpc = "collect" /\ wg = 0) ~> (cpc = "returned" /\ results = <<>> /\ resultsClosed)

\* GetBulkCrypto for two coins at the moment its second worker has sent:
\* the channel holds both records, is still open and the collector has
\* not taken any.
C38_Witness ==
    /\ op = "bulk"
    /\ cpc = "collect"
    /\ Len(coins) = 2
    /\ Len(results) = 2
    /\ portfolio = <<>>
    /\ wg = 0
    /\ Exited = {1, 2}
    /\ ~resultsClosed

\* C39: the event channel of a stream is closed exactly when its producer
\* goroutine has returned, by the step in which it returns, and stays
\* closed; an event is added only during a tick, on the open channel, and
\* never after the close; outside a tick no fetch goroutine of the stream
\* is running and no update is waiting to be sent, so the producer returns
\* only with every fetch and send of its ticks over.
C39_ClosedOnceByProducer ==
    /\ [](/\ eventChan.closed <=> spc = "done"
          /\ spc # "tick" =>
                /\ swg = 0
                /\ updateChan = <<>>
                /\ \A i \in Tasks : swpc[i] # "fetch")
    /\ [][eventChan.closed =>
             /\ eventChan'.closed
             /\ \/ eventChan'.buf = eventChan.buf
                \/ eventChan'.buf = Tail(eventChan.buf)]_vars
    /\ [][eventChan'.closed # eventChan.closed =>
             /\ spc \in {"select", "tick"} /\ spc' = "done"
             /\ swg = 0
             /\ updateChan = <<>>
             /\ spc = "tick" => updateClosed
             /\ eventChan'.buf = eventChan.buf]_vars
    /\ [][Len(eventChan'.buf) > Len(eventChan.buf) =>
             /\ spc = "tick" /\ spc' = "tick"
             /\ ~eventChan.closed /\ ~eventChan'.closed
             /\ updateChan # <<>>]_vars

\* A stream over two coins without max_updates whose client disconnected
\* during the first tick: the tick sent both events, the producer then saw
\* the cancellation and closed the channel, which still holds the events.
C39_Witness ==
    /\ spc = "done"
    /\ eventChan.closed
    /\ sconf.MaxUpdates = 0
    /\ Len(sconf.Coins) = 2
    /\ updateCount = 1
    /\ sctx
    /\ hpc = "range"
    /\ Len(eventChan.buf) = 2
    /\ tickEmitted = 2

====
